---- MODULE Spec2Model ----
(***************************************************************************)
(* Space-Lander-Simulator: the vehicle (Lander + Engine), the thrust       *)
(* allocator, the thrust and fuel managers, the emergency-scenario handler *)
(* and the Simulator's step/reset, as a state machine; the controllers    *)
(* (PID, LQR, MPC) and their factories; the Simulator with its controller  *)
(* beside a twin; the StepSimulator and the telemetry dictionaries.        *)
(*                                                                         *)
(* Numbers.  The program computes in floating point; the model computes in *)
(* integers.  Thrusts, masses, accelerations and times are whole numbers   *)
(* of a model unit; a throttle t in [0,1] is the integer t*ThrottleScale;  *)
(* the least-squares solution of the allocator is carried exactly, scaled  *)
(* by its common denominator, and only the thrusts it returns are rounded  *)
(* down to whole units.  A comparison against a small epsilon in the code  *)
(* (1e-6, 1e-9, 1e-12) is a comparison against 0 on the exact values.      *)
(***************************************************************************)
EXTENDS Integers, Sequences, FiniteSets, TLC

\* ---------------------------------------------------------------- bounds
MaxFuel == 6          \* max_fuel_mass of the modelled vehicles
MaxAltitude == 6      \* steps are taken while 0 < altitude <= MaxAltitude
MaxSpeed == 6         \* ... and |velocity| <= MaxSpeed
MaxTime == 3          \* the handler's clock is advanced up to MaxTime
MaxForce == 12        \* largest force/torque component given to allocate

\* ------------------------------------------------------------- constants
ThrottleScale == 12   \* throttle 1.0; every max_thrust below divides it
OneSecond == 2        \* the time unit is half a second
SurfaceGravity == 2   \* Planet.gravity
PlanetRadius == 8     \* Planet.radius
AirDensity == 0       \* Planet.air_density (Moon)
DragCoefficient == 1  \* Lander.drag_coefficient
DryMass == 1          \* Lander.dry_mass

\* --------------------------------------------------------------- helpers
Min(a, b) == IF a < b THEN a ELSE b
Max(a, b) == IF a > b THEN a ELSE b
Abs(a) == IF a < 0 THEN -a ELSE a
Sign(a) == IF a > 0 THEN 1 ELSE IF a < 0 THEN -1 ELSE 0
\* np.clip(x, lo, hi) == minimum(maximum(x, lo), hi)
Clip(x, lo, hi) == Min(Max(x, lo), hi)

RECURSIVE SumSeq(_)
SumSeq(s) == IF s = <<>> THEN 0 ELSE Head(s) + SumSeq(Tail(s))

\* floor of the square root (np.linalg.norm of an integer vector)
Norm(vec) ==
  LET s == vec[1] * vec[1] + vec[2] * vec[2] + vec[3] * vec[3]
  IN CHOOSE k \in 0..(Abs(vec[1]) + Abs(vec[2]) + Abs(vec[3])) :
       k * k <= s /\ (k + 1) * (k + 1) > s

Zeros(n) == [i \in 1..n |-> 0]

\* Python's None where the value is otherwise a tuple
None == <<>>

\* --------------------------------------------------------------- vehicle
\* Engine layouts (Lander.configure_engines): per engine its max_thrust, the
\* x coordinate of its mount (all mounts have z = 0 and the same y, all
\* directions are (0,1,0), as in every vehicle of the repository) and
\* flow = 1/(specific_impulse * g0), the fuel drawn per unit thrust and time.
\* 1: MoonLander (one engine); 2: Falcon9Booster in section (centre engine
\* first, then the ring); 3: two engines of different max_thrust and
\* specific impulse (StarshipPayload's mixed layout).
Layouts ==
  << [max_thrust |-> <<4>>,       xpos |-> <<0>>,        flow |-> <<1>>],
     [max_thrust |-> <<4, 4, 4>>, xpos |-> <<0, -1, 1>>, flow |-> <<1, 1, 1>>],
     [max_thrust |-> <<1, 3>>,    xpos |-> <<-1, 1>>,    flow |-> <<2, 1>> ] >>

VARIABLES
  layout,                 \* which vehicle was constructed (index of Layouts)
  enabled,                \* Engine.enabled, per engine
  throttle,               \* Engine.throttle * ThrottleScale, per engine
  fuel_mass,              \* Lander.fuel_mass
  fuel_consumption_rate,  \* Lander.fuel_consumption_rate * OneSecond
  position,               \* Lander.position[1] (altitude)
  velocity,               \* Lander.velocity[1]
  orientation,            \* Lander.orientation
  angular_velocity,       \* Lander.angular_velocity
  initial_velocity,       \* Simulator.initial_velocity
  initial_altitude,       \* the initial_altitude last given to the Simulator
  scenario,               \* EmergencyScenarioHandler.scenario_config
  time,                   \* EmergencyScenarioHandler.time
  throttle_history,       \* EmergencyScenarioHandler.throttle_history
  issued,                 \* under response_lag: every (time, throttle)
                          \* command an allocation issued since the last
                          \* handler reset, per engine
  desired_force,          \* the desired_force last given to allocate
  desired_torque,         \* the desired_torque last given to allocate
  applied,                \* the per-engine thrust array of the last step
  thrust_applied,         \* total_thrust_to_apply handed to PhysicsEngine
  consumed,               \* what the last Lander.consume_fuel returned
  fuel_at_start,          \* fuel_mass when the last operation began
  op,                     \* the operation that produced this state
  controller,             \* the controller object (Simulator.controller)
  thrust_vector,          \* the array that is the default of step's
                          \* thrust_vector argument, one for all simulators
  twin,                   \* a second simulator built from the same
                          \* configuration and driven by the same calls
  sim_class,              \* the class of the simulator the caller drives
  stepsim,                \* the StepSimulator object
  snapshot,               \* the telemetry dictionary last returned
  planet,                 \* the Planet object and its last gravity_at_height
  worker,                 \* the SimulationWorker object and where its run() is
  dashboard,              \* the Dashboard's fields and its control panel's
  call                    \* the arguments and the result of the last
                          \* controller construction or update

\* the vehicle, the simulator and the emergency handler
sim_vars == << layout, enabled, throttle, fuel_mass, fuel_consumption_rate,
           position, velocity, orientation, angular_velocity,
           initial_velocity, initial_altitude, scenario, time, throttle_history,
           issued, desired_force, desired_torque, applied, thrust_applied,
           consumed, fuel_at_start, op >>

\* what the vehicle's own operations leave alone
app_vars == << planet, worker, dashboard >>
ui_vars == << sim_class, stepsim, snapshot, app_vars >>
ext_vars == << controller, call, thrust_vector, twin, ui_vars >>

vars == << sim_vars, ext_vars >>

N == Len(Layouts[layout].max_thrust)
Engines == 1..N
max_thrust(i) == Layouts[layout].max_thrust[i]

\* Lander.mass
mass == DryMass + fuel_mass

\* Engine.current_thrust without its "if self.enabled" (a variant)
current_thrust_ignoring_enabled(i) ==
  (max_thrust(i) * throttle[i]) \div ThrottleScale

\* Engine.current_thrust
current_thrust(i) ==
  IF enabled[i] THEN (max_thrust(i) * throttle[i]) \div ThrottleScale ELSE 0

\* Lander.get_max_total_thrust
get_max_total_thrust ==
  SumSeq([i \in Engines |-> IF enabled[i] THEN max_thrust(i) ELSE 0])

\* Lander.get_total_thrust
get_total_thrust == SumSeq([i \in Engines |-> current_thrust(i)])

\* thrust / max_thrust as a throttle
ThrottleOf(thrust, maxt) == (thrust * ThrottleScale) \div maxt

\* Planet(name, gravity, air_density, mass, radius); height and result are
\* the argument and the value of the last gravity_at_height, result as the
\* exact fraction num/den
Planet(gravity, radius) ==
  [gravity |-> gravity, radius |-> radius, called |-> FALSE, height |-> None,
   result |-> [num |-> 0, den |-> 1]]

\* the planet of the simulations (src/core/Planet.py, moon)
moon == Planet(SurfaceGravity, PlanetRadius)

\* gravity_at_height with the max(0.0, height) left out (a variant)
gravity_ratio_unclamped(p, height) ==
  IF height = None THEN [num |-> p.gravity, den |-> 1]
  ELSE [num |-> p.gravity * p.radius * p.radius,
        den |-> (p.radius + height[1]) * (p.radius + height[1])]

\* Planet.gravity_at_height(height) as the exact fraction
\* gravity * radius^2 / (radius + h)^2; height is None or <<h>>
gravity_ratio(p, height) ==
  IF height = None THEN [num |-> p.gravity, den |-> 1]
  ELSE LET h == Max(0, height[1])
       IN [num |-> p.gravity * p.radius * p.radius,
           den |-> (p.radius + h) * (p.radius + h)]

\* Planet.gravity_at_height in whole units, for the moon
gravity_at_height(h) ==
  LET g == gravity_ratio(moon, <<h>>) IN g.num \div g.den

\* -------------------------------------------------------- ThrustAllocator
\* ThrustAllocator.allocate for engine set L (a layout), enabled flags en,
\* desired_force f and desired_torque t (3-vectors).  With directions
\* (0,1,0) and mounts (x_i, y, 0) the rows of A are: 0, ones, 0 (force) and
\* -z = 0, 0, x (torque); ones and x are orthogonal (the x_i sum to 0), so
\* the minimum-norm least-squares solution is
\*     x_i = f[2]/n + x_i * t[3] / sum(x_j^2)
\* which LstsqD gives multiplied by Denom(L), exactly.
SumSq(L) == SumSeq([i \in 1..Len(L.xpos) |-> L.xpos[i] * L.xpos[i]])
Denom(L) == Len(L.xpos) * (IF SumSq(L) = 0 THEN 1 ELSE SumSq(L))
LstsqD(L, f, t) ==
  [i \in 1..Len(L.xpos) |->
     IF SumSq(L) = 0 THEN f[2]
     ELSE SumSq(L) * f[2] + Len(L.xpos) * L.xpos[i] * t[3]]

\* max_thrusts with the "if e.enabled" left out (a variant)
max_thrusts_ignoring_enabled(L, en) ==
  [i \in 1..Len(L.max_thrust) |-> L.max_thrust[i]]

\* max_thrusts = [e.max_thrust if e.enabled else 0.0 for e in engines]
max_thrusts(L, en) ==
  [i \in 1..Len(L.max_thrust) |-> IF en[i] THEN L.max_thrust[i] ELSE 0]

\* x = np.clip(x, 0.0, max_thrusts), times Denom(L)
allocate_clipped(L, en, f, t) ==
  LET x == LstsqD(L, f, t)
      mt == max_thrusts(L, en)
  IN [i \in 1..Len(L.max_thrust) |-> Clip(x[i], 0, Denom(L) * mt[i])]

\* residual = b - A @ applied, times Denom(L)
allocate_residual(L, en, f, t) ==
  LET D == Denom(L)
      clipped == allocate_clipped(L, en, f, t)
  IN << D * f[1], D * f[2] - SumSeq(clipped), D * f[3],
        D * t[1], D * t[2],
        D * t[3] - SumSeq([i \in 1..Len(L.max_thrust) |-> L.xpos[i] * clipped[i]]) >>

\* the branch "applied += add" is taken: resid_norm > 1e-6,
\* total_capacity > 1e-9 and np.sum(weights) > 1e-12
redistributes(L, en, f, t) ==
  LET n == Len(L.max_thrust)
      mt == max_thrusts(L, en)
      clipped == allocate_clipped(L, en, f, t)
      residual == allocate_residual(L, en, f, t)
      capacity == [i \in 1..n |-> Denom(L) * mt[i] - clipped[i]]
  IN /\ \E k \in 1..6 : residual[k] # 0
     /\ SumSeq(capacity) > 0
     /\ SumSeq([i \in 1..n |-> Max(0, f[2]) * capacity[i]]) > 0

\* The array allocate returns, times Denom(L), exactly (up to the rounding
\* of the norm and of the weights' division).
allocate_scaled(L, en, f, t) ==
  LET n == Len(L.max_thrust)
      D == Denom(L)
      mt == max_thrusts(L, en)
      maxD == [i \in 1..n |-> D * mt[i]]
      clipped == allocate_clipped(L, en, f, t)
      capacity == [i \in 1..n |-> maxD[i] - clipped[i]]
      total_capacity == SumSeq(capacity)
      dir_align == Max(0, f[2])
      weights == [i \in 1..n |-> dir_align * capacity[i]]
      sum_weights == SumSeq(weights)
      amount == Min(D * Norm(f), total_capacity)
      added == [i \in 1..n |->
                  Min(clipped[i] + (weights[i] * amount) \div sum_weights,
                      maxD[i])]
      appliedD == IF redistributes(L, en, f, t) THEN added ELSE clipped
  IN [i \in 1..n |-> Clip(appliedD[i], 0, maxD[i])]

\* ThrustAllocator.allocate, in whole units of thrust
allocate(L, en, f, t) ==
  LET a == allocate_scaled(L, en, f, t)
  IN [i \in 1..Len(L.max_thrust) |-> a[i] \div Denom(L)]

\* ------------------------------------------------------------------ fuel
\* Lander.consume_fuel without its min(self.fuel_mass, ...) (a variant)
consume_fuel_unclamped(fuel, amount_kg, dt) ==
  LET c == Max(0, amount_kg)
  IN [fuel_mass |-> fuel - c,
      fuel_consumption_rate |-> IF dt > 0 THEN (c * OneSecond) \div dt ELSE 0,
      consumed |-> c]

\* Lander.consume_fuel(amount_kg, dt): the fuel left, the rate and the
\* amount consumed (its return value).
consume_fuel(fuel, amount_kg, dt) ==
  LET c == Min(fuel, Max(0, amount_kg))
  IN [fuel_mass |-> fuel - c,
      fuel_consumption_rate |-> IF dt > 0 THEN (c * OneSecond) \div dt ELSE 0,
      consumed |-> c]

\* FuelManager._calculate_mass_flow, and the same loop in Simulator.step
calculate_mass_flow(L, thrusts) ==
  SumSeq([i \in 1..Len(thrusts) |->
            IF thrusts[i] <= 0 THEN 0 ELSE thrusts[i] * L.flow[i]])

\* applied_thrusts left as they are (a variant)
ScaleThrustsUnscaled(thrusts, fuel, fuel_needed) == thrusts

\* applied_thrusts * scale, scale = fuel_mass / fuel_needed
ScaleThrusts(thrusts, fuel, fuel_needed) ==
  [i \in 1..Len(thrusts) |-> (thrusts[i] * fuel) \div fuel_needed]

\* The fuel section of Simulator.step (consume_fuel is called without dt).
\* Gives the thrust array, the throttles, the total thrust and the fuel.
SimulatorFuel(L, thrusts, thr, fuel, rate, dt) ==
  LET mass_flow == calculate_mass_flow(L, thrusts)
      fuel_needed == mass_flow * dt
      same == [applied |-> thrusts, throttle |-> thr, fuel_mass |-> fuel,
               fuel_consumption_rate |-> rate, consumed |-> 0]
  IN IF mass_flow > 0
     THEN IF fuel <= 0
          THEN [same EXCEPT !.applied = Zeros(Len(thrusts)),
                            !.throttle = Zeros(Len(thrusts))]
          ELSE IF fuel_needed > fuel
          THEN LET scaled == ScaleThrusts(thrusts, fuel, fuel_needed)
                   c == consume_fuel(fuel, fuel, 0)
               IN [applied |-> scaled,
                   throttle |-> [i \in 1..Len(thrusts) |->
                                   ThrottleOf(scaled[i], L.max_thrust[i])],
                   fuel_mass |-> c.fuel_mass,
                   fuel_consumption_rate |-> c.fuel_consumption_rate,
                   consumed |-> c.consumed]
          ELSE LET c == consume_fuel(fuel, fuel_needed, 0)
               IN [same EXCEPT !.fuel_mass = c.fuel_mass,
                               !.fuel_consumption_rate = c.fuel_consumption_rate,
                               !.consumed = c.consumed]
     ELSE same

\* --------------------------------------------------------- PhysicsEngine
\* Lander.dimensions and Lander.inertia (per axis)
Dimensions == <<6, 6, 6>>
inertia(m) ==
  << (m * (Dimensions[2] * Dimensions[2] + Dimensions[3] * Dimensions[3])) \div 12,
     (m * (Dimensions[1] * Dimensions[1] + Dimensions[3] * Dimensions[3])) \div 12,
     (m * (Dimensions[1] * Dimensions[1] + Dimensions[2] * Dimensions[2])) \div 12 >>

\* PhysicsEngine.update for a vertical thrust_vector and no wind, from
\* altitude p, vertical velocity v, orientation o and angular velocity w,
\* with the vehicle's mass m.  The horizontal velocity is 0, so drag has a
\* vertical component only; the orientation is <<0,0,0>> while the drag
\* torque is 0 (AirDensity = 0), and the rotation matrix is the identity.
PhysicsUpdate(p, v, o, w, thrust_force, dt, m) ==
  LET g == gravity_at_height(p)
      weight == -(m * g)
      drag == -((AirDensity * DragCoefficient * v * v * Sign(v)) \div 2)
      net_force == thrust_force + drag + weight
      acceleration == net_force \div m
      v2 == v + acceleration * dt
      \* torque = cross(dimensions / 2, (0, drag, 0))
      torque == << -((Dimensions[3] * drag) \div 2), 0, (Dimensions[1] * drag) \div 2 >>
      w2 == [k \in 1..3 |-> w[k] + (torque[k] \div inertia(m)[k]) * dt]
  IN [position |-> p + v2 * dt, velocity |-> v2,
      angular_velocity |-> w2,
      orientation |-> [k \in 1..3 |-> o[k] + w2[k] * dt]]

\* ---------------------------------------------- EmergencyScenarioHandler
\* scenario_config: type and its parameter (count, throttle or delay)
MaxFailCount == 2
DelayValues == {1, OneSecond}
StuckValues == {ThrottleScale \div 2, ThrottleScale}
Scenarios ==
  {[type |-> "none", param |-> 0]}
  \cup {[type |-> "engine_failure", param |-> c] : c \in 1..MaxFailCount}
  \cup {[type |-> "engine_stuck", param |-> t] : t \in StuckValues}
  \cup {[type |-> "response_lag", param |-> d] : d \in DelayValues}

\* Lander.set_engine_enabled(index, value) on flags en and throttles thr
set_engine_enabled(en, thr, index, value) ==
  IF index \in DOMAIN en
  THEN [enabled |-> [en EXCEPT ![index] = value],
        throttle |-> IF value THEN thr ELSE [thr EXCEPT ![index] = 0]]
  ELSE [enabled |-> en, throttle |-> thr]

\* EmergencyScenarioHandler._apply_initial_scenario: engine_failure disables
\* the first min(count, n) engines, one set_engine_enabled(i, False) each.
RECURSIVE DisableFirst(_, _, _)
DisableFirst(en, thr, k) ==
  IF k <= 0 THEN [enabled |-> en, throttle |-> thr]
  ELSE LET r == DisableFirst(en, thr, k - 1)
       IN set_engine_enabled(r.enabled, r.throttle, k, FALSE)

\* _apply_initial_scenario disabling one engine whatever the count (a variant)
apply_initial_scenario_one_engine(sc, en, thr) ==
  IF sc.type = "engine_failure"
  THEN DisableFirst(en, thr, Min(1, Len(en)))
  ELSE [enabled |-> en, throttle |-> thr]

apply_initial_scenario(sc, en, thr) ==
  IF sc.type = "engine_failure"
  THEN DisableFirst(en, thr, Min(sc.param, Len(en)))
  ELSE [enabled |-> en, throttle |-> thr]

\* the cleanup loop of modify_throttle_command: popleft while the oldest
\* command was issued before cutoff_time
RECURSIVE DropOld(_, _)
DropOld(h, cutoff_time) ==
  IF h # <<>> /\ h[1][1] < cutoff_time THEN DropOld(Tail(h), cutoff_time) ELSE h

\* the last loop of modify_throttle_command: the throttle of the last
\* command of h whose age at time now is at least delay, 0 if there is none
RECURSIVE DelayedThrottle(_, _, _)
DelayedThrottle(h, now, delay) ==
  IF h = <<>> THEN 0
  ELSE LET last == h[Len(h)]
       IN IF now - last[1] >= delay THEN last[2]
          ELSE DelayedThrottle(SubSeq(h, 1, Len(h) - 1), now, delay)

\* EmergencyScenarioHandler.modify_throttle_command on one engine's history
\* h: the history it leaves and the throttle it returns
modify_throttle_command(sc, h, now, desired_throttle) ==
  IF sc.type = "response_lag" /\ sc.param > 0
  THEN LET h2 == DropOld(Append(h, <<now, desired_throttle>>),
                         now - sc.param - OneSecond)
       IN [history |-> h2, actual |-> DelayedThrottle(h2, now, sc.param)]
  ELSE [history |-> h, actual |-> desired_throttle]

\* EmergencyScenarioHandler.apply_scenario_effects
apply_scenario_effects(sc, en, thr) ==
  IF sc.type = "engine_stuck" /\ Len(en) > 0
  THEN [enabled |-> [en EXCEPT ![1] = TRUE],
        throttle |-> [thr EXCEPT ![1] = sc.param]]
  ELSE [enabled |-> en, throttle |-> thr]

\* ---------------------------------------------------------- ThrustManager
\* ThrustManager._update_throttles_from_thrusts: per engine the throttle set,
\* the thrust returned and the handler's history
update_throttles_from_thrusts(L, sc, en, hist, now, thrusts) ==
  LET m(i) == modify_throttle_command(sc, hist[i], now,
                                      ThrottleOf(thrusts[i], L.max_thrust[i]))
      on(i) == en[i] /\ L.max_thrust[i] > 0
  IN [throttle |-> [i \in 1..Len(en) |-> IF on(i) THEN m(i).actual ELSE 0],
      applied |-> [i \in 1..Len(en) |->
                     IF on(i) THEN (m(i).actual * L.max_thrust[i]) \div ThrottleScale
                     ELSE 0],
      history |-> [i \in 1..Len(en) |-> IF on(i) THEN m(i).history ELSE hist[i]],
      commands |-> [i \in 1..Len(en) |->
                      IF on(i) /\ sc.type = "response_lag" /\ sc.param > 0
                      THEN << <<now, ThrottleOf(thrusts[i], L.max_thrust[i])>> >>
                      ELSE <<>>]]

\* ThrustManager.allocate_from_controller: the desired force it builds
controller_force(m, desired_accel, gravity) ==
  <<0, Max(0, m * (desired_accel + gravity)), 0>>

\* ThrustManager.allocate_manual without the min(thrust_force,
\* get_max_total_thrust()) of its line 57 (a variant)
allocate_manual_uncapped(L, en, thrust_force) ==
  LET n == Len(en)
      force == thrust_force
      n_enabled == Cardinality({i \in 1..n : en[i]})
      per_engine == force \div n_enabled
  IN IF n_enabled = 0 \/ force <= 0
     THEN [applied |-> Zeros(n), throttle |-> Zeros(n)]
     ELSE [applied |-> [i \in 1..n |-> IF en[i] THEN per_engine ELSE 0],
           throttle |-> [i \in 1..n |->
                           IF en[i] /\ L.max_thrust[i] > 0
                           THEN ThrottleOf(per_engine, L.max_thrust[i]) ELSE 0]]

\* ThrustManager.allocate_manual: thrusts and throttles
allocate_manual(L, en, thrust_force) ==
  LET n == Len(en)
      max_total == SumSeq([i \in 1..n |-> IF en[i] THEN L.max_thrust[i] ELSE 0])
      force == Min(thrust_force, max_total)
      n_enabled == Cardinality({i \in 1..n : en[i]})
      per_engine == force \div n_enabled
  IN IF n_enabled = 0 \/ force <= 0
     THEN [applied |-> Zeros(n), throttle |-> Zeros(n)]
     ELSE [applied |-> [i \in 1..n |-> IF en[i] THEN per_engine ELSE 0],
           throttle |-> [i \in 1..n |->
                           IF en[i] /\ L.max_thrust[i] > 0
                           THEN ThrottleOf(per_engine, L.max_thrust[i]) ELSE 0]]

\* ------------------------------------------------------------ FuelManager
\* FuelManager.consume_fuel_for_thrusts(applied_thrusts, dt): the thrusts it
\* returns, the throttles, the fuel, the rate and the amount consumed
consume_fuel_for_thrusts(L, thrusts, thr, fuel, rate, dt) ==
  LET mass_flow == calculate_mass_flow(L, thrusts)
      fuel_needed == mass_flow * dt
      same == [applied |-> thrusts, throttle |-> thr, fuel_mass |-> fuel,
               fuel_consumption_rate |-> rate, consumed |-> 0]
  IN IF Len(thrusts) = 0 \/ SumSeq(thrusts) <= 0 \/ mass_flow <= 0
     THEN same
     ELSE IF fuel <= 0
     THEN [same EXCEPT !.applied = Zeros(Len(thrusts)),
                       !.throttle = Zeros(Len(thrusts))]
     ELSE IF fuel_needed > fuel
     THEN LET scaled == ScaleThrusts(thrusts, fuel, fuel_needed)
              c == consume_fuel(fuel, fuel, dt)
          IN [applied |-> scaled,
              throttle |-> [i \in 1..Len(thrusts) |->
                              IF L.max_thrust[i] > 0
                              THEN ThrottleOf(scaled[i], L.max_thrust[i]) ELSE 0],
              fuel_mass |-> c.fuel_mass,
              fuel_consumption_rate |-> c.fuel_consumption_rate,
              consumed |-> c.consumed]
     ELSE LET c == consume_fuel(fuel, fuel_needed, dt)
          IN [same EXCEPT !.fuel_mass = c.fuel_mass,
                          !.fuel_consumption_rate = c.fuel_consumption_rate,
                          !.consumed = c.consumed]

\* ------------------------------------------------------------ controllers
\* Numbers.  Gains are carried in hundredths (GainScale); the PID integral
\* and the position estimates, sums of velocity * dt, are carried times
\* OneSecond; a controller's output, an acceleration, is therefore carried
\* as the integer output * OutScale.  Altitudes are in units of 100 m,
\* gravity in hundredths of m/s^2, dt_nom in tenths of a second.
MaxIntegral == 6      \* updates are taken while |integral| * OneSecond <= MaxIntegral
MaxEstimate == 6      \* ... and |pos_est| * OneSecond <= MaxEstimate
GainScale == 100
OutScale == GainScale * OneSecond

\* None for a kind (a string, a sequence of characters) that was not given
NoneKind == <<"None">>

\* constructor defaults
PidDefaultActivation == 5      \* PIDController(activation_altitude=500.0), in 100 m
MpcDefaultActivation == 5      \* MPCController(activation_altitude=500.0), in 100 m
MpcDefaultGravity == 981       \* MPCController(gravity=9.81)
MpcDefaultLimits == <<-50, 20>>
\* Q = diag(0.01, 200.0) in hundredths and units, R = 1
DefaultQ == <<1, 200>>
DefaultR == 1
FallbackK == <<0, 60 * GainScale>>   \* np.array([[0.0, 60.0]])
MaxIter == 200

\* the fields of a controller object; kind "none" before construction,
\* "error" when the constructor or the factory raised
NoController ==
  [kind |-> "none", kp |-> 0, ki |-> 0, kd |-> 0, setpoint |-> 0,
   limits |-> None, activation_altitude |-> 0, gravity |-> 0,
   integral |-> 0, prev_error |-> 0, pos_est |-> 0, vel_est |-> 0,
   K |-> <<0, 0>>, d_d |-> 0]
Raised == [NoController EXCEPT !.kind = "error"]

\* PIDController.__init__
PIDController(kp, ki, kd, setpoint, output_limits, activation_altitude) ==
  [NoController EXCEPT !.kind = "pid", !.kp = kp, !.ki = ki, !.kd = kd,
                       !.setpoint = setpoint, !.limits = output_limits,
                       !.activation_altitude = activation_altitude]

\* floor of the square root, by bisection of lo..hi
RECURSIVE IsqrtIn(_, _, _)
IsqrtIn(n, lo, hi) ==
  IF lo >= hi THEN lo
  ELSE LET mid == (lo + hi + 1) \div 2
       IN IF mid <= n \div mid THEN IsqrtIn(n, mid, hi)
          ELSE IsqrtIn(n, lo, mid - 1)
Isqrt(n) == IsqrtIn(n, 0, n)

\* scipy.linalg.solve_continuous_are for A = [[0,1],[0,0]], B = [0,1]' and
\* diagonal Q, then K = R^-1 B' P:  K = [sqrt(q1/r), sqrt(q2/r + 2 sqrt(q1/r))]
RiccatiGain(Q, R) ==
  LET k1 == Isqrt((GainScale * Q[1]) \div R)
  IN << k1, Isqrt((GainScale * GainScale * Q[2]) \div R + 2 * GainScale * k1) >>

\* One Kleinman step from gain K: M = I (x) Acl' + Acl' (x) I
\* has determinant 4 det(Acl) tr(Acl)^2 with Acl = [[0,1],[-k1,-k2]]; a
\* singular M makes np.linalg.solve raise LinAlgError.  Otherwise P solves
\* the Lyapunov equation and K_new = R^-1 B' P.
LyapunovSingular(K) == 4 * K[1] * K[2] * K[2] = 0
KleinmanNext(K, Q, R) ==
  LET s11 == GainScale * Q[1] + R * K[1] * K[1]
  IN << s11 \div (2 * K[1] * R),
        (GainScale * GainScale * Q[2] + R * K[2] * K[2]
           + (GainScale * s11) \div K[1]) \div (2 * K[2] * R) >>

\* the loop of _compute_lqr_gain: the gain it returns, or the fallback gain
\* after a break or max_iter iterations
RECURSIVE Kleinman(_, _, _, _)
Kleinman(K, Q, R, iter) ==
  IF iter >= MaxIter \/ LyapunovSingular(K) THEN FallbackK
  ELSE LET K_new == KleinmanNext(K, Q, R)
       IN IF K_new = K THEN K_new ELSE Kleinman(K_new, Q, R, iter + 1)

\* LQRController._compute_lqr_gain; scipy says whether the import succeeds
compute_lqr_gain(Q, R, scipy) ==
  IF scipy = "available" THEN RiccatiGain(Q, R)
  ELSE Kleinman(<<0, 0>>, Q, R, 0)

\* LQRController.__init__
LQRController(Q, R, setpoint, scipy) ==
  [NoController EXCEPT
     !.kind = "lqr", !.setpoint = setpoint,
     !.K = compute_lqr_gain(IF Q = None THEN DefaultQ ELSE Q,
                            IF R = None THEN DefaultR ELSE R[1], scipy)]

\* MPCController._discretize: the velocity row of d_d, dt * (-gravity)
discretize(dt, gravity) == -(dt * gravity)

\* MPCController.__init__ (horizon, Q, R only enter the optimizer)
MPCController(setpoint, horizon, Q, R, output_limits, dt_nom, activation_altitude, gravity) ==
  [NoController EXCEPT
     !.kind = "mpc", !.setpoint = setpoint,
     !.limits = IF output_limits = None THEN MpcDefaultLimits
                ELSE output_limits,
     !.activation_altitude = activation_altitude,
     !.gravity = gravity,
     !.d_d = discretize(dt_nom, gravity)]

\* kwargs.get(name) of an option that is a tuple or a matrix
Get(kwargs, name) == IF name \in DOMAIN kwargs THEN kwargs[name] ELSE None
\* kwargs.get(name) is a number for each of names; float(None) and
\* int(None) raise TypeError in the constructors
Has(kwargs, names) == names \subseteq DOMAIN kwargs

\* A kind is None or a string, a sequence of characters.
Lower(c) ==
  CASE c = "P" -> "p" [] c = "I" -> "i" [] c = "D" -> "d" [] c = "L" -> "l"
    [] c = "Q" -> "q" [] c = "R" -> "r" [] c = "M" -> "m" [] c = "C" -> "c"
    [] OTHER -> c
RECURSIVE StripLeft(_)
StripLeft(str) ==
  IF str # <<>> /\ Head(str) = " " THEN StripLeft(Tail(str)) ELSE str
RECURSIVE StripRight(_)
StripRight(str) ==
  IF str # <<>> /\ str[Len(str)] = " "
  THEN StripRight(SubSeq(str, 1, Len(str) - 1)) ELSE str
\* kind.strip().lower()
StripLower(str) ==
  LET t == StripRight(StripLeft(str))
  IN [i \in 1..Len(t) |-> Lower(t[i])]
\* "if kind": None and the empty string are falsy
Truthy(kind) == kind # NoneKind /\ kind # <<>>

Pid == <<"p", "i", "d">>
Lqr == <<"l", "q", "r">>
Mpc == <<"m", "p", "c">>

\* controller_factory.make_controller(kind, **kwargs)
make_controller(kind, kwargs, scipy) ==
  LET k == IF Truthy(kind) THEN StripLower(kind) ELSE Lqr
  IN CASE k = Pid /\ Has(kwargs, {"kp", "ki", "kd", "setpoint"}) ->
            PIDController(kwargs.kp, kwargs.ki, kwargs.kd, kwargs.setpoint,
                          Get(kwargs, "output_limits"), PidDefaultActivation)
       [] k = Lqr /\ Has(kwargs, {"setpoint"}) ->
            LQRController(Get(kwargs, "Q"), Get(kwargs, "R"),
                          kwargs.setpoint, scipy)
       [] k = Mpc /\ Has(kwargs, {"setpoint", "horizon", "dt_nom"}) ->
            MPCController(kwargs.setpoint, kwargs.horizon,
                          Get(kwargs, "Q"), Get(kwargs, "R"),
                          Get(kwargs, "output_limits"), kwargs.dt_nom,
                          MpcDefaultActivation, MpcDefaultGravity)
       [] OTHER -> Raised

\* config.py: the defaults
DEFAULT_CONTROLLER_KIND == Mpc
LANDING_SETPOINT == -3
PID_DEFAULTS ==
  [kp |-> 60, ki |-> 1, kd |-> 300, setpoint |-> LANDING_SETPOINT,
   output_limits |-> <<-10, 5>>, activation_altitude |-> 5]
LQR_DEFAULTS ==
  [Q |-> None, R |-> None, setpoint |-> LANDING_SETPOINT,
   activation_altitude |-> 5]
MPC_DEFAULTS ==
  [setpoint |-> LANDING_SETPOINT, horizon |-> 10, Q |-> None, R |-> None,
   output_limits |-> <<-50, 20>>, dt_nom |-> 1, activation_altitude |-> 10,
   gravity |-> 981]

\* config.make_controller_by_kind(kind); the recursion on an unknown kind
\* ends at once because DEFAULT_CONTROLLER_KIND is a known kind
make_controller_by_kind(kind, scipy) ==
  LET k0 == IF kind = NoneKind THEN DEFAULT_CONTROLLER_KIND ELSE kind
      k == IF Truthy(k0) THEN StripLower(k0) ELSE DEFAULT_CONTROLLER_KIND
      known == IF k \in {Pid, Lqr, Mpc} THEN k ELSE DEFAULT_CONTROLLER_KIND
  IN CASE known = Pid -> make_controller(Pid, PID_DEFAULTS, scipy)
       [] known = Lqr -> make_controller(Lqr, LQR_DEFAULTS, scipy)
       [] OTHER -> make_controller(Mpc, MPC_DEFAULTS, scipy)

\* PIDConfig.make_pid and its default gains kp = 300, ki = 0, kd = 120
make_pid(kp, ki, kd, setpoint, output_limits) ==
  PIDController(kp, ki, kd, setpoint, output_limits, PidDefaultActivation)
MakePidDefaults ==
  [kp |-> 300 * GainScale, ki |-> 0, kd |-> 120 * GainScale, setpoint |-> -2]

\* What an update returns: the controller after it, the output (times
\* OutScale), the unclamped output and whether the output was saturated.
UpdateResult(c, output, raw) ==
  [controller |-> c, output |-> output, raw |-> raw]

\* PIDController._clamp_output, on outputs times OutScale
clamp_output(c, v) ==
  IF c.limits = None THEN v
  ELSE IF v < c.limits[1] * OutScale THEN c.limits[1] * OutScale
  ELSE IF v > c.limits[2] * OutScale THEN c.limits[2] * OutScale
  ELSE v

\* raw_output > hi or raw_output < lo
Saturated(c, raw) ==
  /\ c.limits # None
  /\ \/ raw > c.limits[2] * OutScale
     \/ raw < c.limits[1] * OutScale

\* abs((hi - lo) / ki) * 0.5, times OneSecond
max_integral_magnitude(c) ==
  Abs(((c.limits[2] - c.limits[1]) * GainScale) \div c.ki)

\* the anti-windup block of PIDController.update, applied to the integral
\* after the increment
anti_windup(c, integral, increment, raw) ==
  IF c.limits # None /\ c.ki # 0
  THEN IF Saturated(c, raw) THEN integral - increment
       ELSE IF Abs(integral) > max_integral_magnitude(c)
            THEN (IF integral > 0 THEN 1 ELSE -1) * max_integral_magnitude(c)
            ELSE integral
  ELSE integral

\* PIDController.update(measurement, dt), dt > 0
pid_update(c, measurement, dt) ==
  LET error == c.setpoint - measurement
      derivative == ((error - c.prev_error) * OneSecond) \div dt
      integral_increment == error * dt
      raw_output == OneSecond * c.kp * error + c.ki * c.integral
                      + OneSecond * c.kd * derivative
  IN UpdateResult(
       [c EXCEPT !.integral = anti_windup(c, c.integral + integral_increment,
                                          integral_increment, raw_output),
                 !.prev_error = error],
       clamp_output(c, raw_output), raw_output)

\* LQRController.update(measurement, dt): u = -K x
lqr_update(c, measurement, dt) ==
  LET pos_est == c.pos_est + measurement * dt
      vel_err == measurement - c.setpoint
      u == -(c.K[1] * pos_est + OneSecond * c.K[2] * vel_err)
  IN UpdateResult([c EXCEPT !.pos_est = pos_est, !.vel_est = measurement], u, u)

\* MPCController._fallback_control: u = -kp pos_err - kd vel_err, clamped
FallbackKp == 10      \* kp = 0.1
FallbackKd == 60      \* kd = 0.6
fallback_raw(c) ==
  -(FallbackKp * c.pos_est + OneSecond * FallbackKd * (c.vel_est - c.setpoint))
fallback_control_unclamped(c) ==
  fallback_raw(c)
fallback_control(c) ==
  Max(c.limits[1] * OutScale, Min(c.limits[2] * OutScale, fallback_raw(c)))

\* how a call of scipy.optimize.minimize can end
SolverOutcomes == {"success", "failure", "raised", "missing"}
\* result.x[0] of a successful L-BFGS-B run lies within the bounds it was
\* given: the first control of the sequence, as a whole acceleration
OptimizerResults(c) ==
  {c.limits[1], Max(c.limits[1], Min(c.limits[2], 0)), c.limits[2]}

\* MPCController._solve_mpc
solve_mpc(c, solver, x) ==
  IF solver = "success" THEN x * OutScale ELSE fallback_control(c)

\* MPCController.update(measurement, dt, altitude): altitude is not read
mpc_update(c, measurement, dt, altitude, solver, x) ==
  LET c1 == [c EXCEPT !.vel_est = measurement,
                      !.pos_est = c.pos_est + measurement * dt]
  IN UpdateResult(c1, solve_mpc(c1, solver, x), fallback_raw(c1))

\* IController.reset of each kind
controller_reset(c) ==
  CASE c.kind = "pid" -> [c EXCEPT !.integral = 0, !.prev_error = 0]
    [] c.kind \in {"lqr", "mpc"} -> [c EXCEPT !.pos_est = 0, !.vel_est = 0]
    [] OTHER -> c

\* the last call on a controller or a factory, with its arguments
NoKwargs == [n \in {} |-> None]
NoCall ==
  [op |-> "none", kind |-> NoneKind, kwargs |-> NoKwargs, scipy |-> "none",
   measurement |-> 0, dt |-> 0, altitude |-> 0, solver |-> "none",
   output |-> 0, raw |-> 0, integral_before |-> 0]

\* ----------------------------------------------- telemetry, StepSimulator
\* ui_integration/step_simulator.py: lander_params mass and thrust_power
StepMass == 2
ThrustPower == 6
MaxStepTime == 4      \* steps are taken while StepSimulator.time < MaxStepTime

\* the fields of a StepSimulator and of its lander; initial_altitude is the
\* constructor's argument, which the object does not keep
NoStepSim ==
  [time |-> 0, finished |-> FALSE, position |-> 0, velocity |-> 0,
   orientation |-> <<0, 0, 0>>, angular_velocity |-> <<0, 0, 0>>,
   initial_altitude |-> 0, controller |-> NoController]

\* StepSimulator.__init__(planet, controller, initial_altitude)
StepSimulator(c, altitude) ==
  [NoStepSim EXCEPT !.position = altitude, !.initial_altitude = altitude,
                    !.controller = c]

\* StepSimulator.step(dt) past its first test: the simulator after the
\* controller, the physics, the clock and the touchdown test; the
\* controller, when there is one, is a PID, and its output is rounded down
\* to a whole force
stepsim_advance(s, dt) ==
  LET u == IF s.controller.kind = "none"
           THEN UpdateResult(s.controller, 0, 0)
           ELSE pid_update(s.controller, s.velocity, dt)
      thrust_force == Max(0, Min(u.output \div OutScale, ThrustPower))
      ph == PhysicsUpdate(s.position, s.velocity, s.orientation,
                          s.angular_velocity, thrust_force, dt, StepMass)
  IN [s EXCEPT !.position = ph.position, !.velocity = ph.velocity,
               !.orientation = ph.orientation,
               !.angular_velocity = ph.angular_velocity,
               !.controller = u.controller,
               !.time = s.time + dt,
               !.finished = ph.position <= 0]

\* step without its "if self.finished: return" (a variant)
stepsim_step_while_finished(s, dt) == stepsim_advance(s, dt)

\* StepSimulator.step(dt), the simulator after it
stepsim_step(s, dt) ==
  IF s.finished THEN s ELSE stepsim_advance(s, dt)

\* StepSimulator.reset(): position = [0, position[1], 0]
stepsim_reset(s) ==
  [s EXCEPT !.time = 0, !.finished = FALSE, !.position = s.position,
            !.velocity = 0, !.orientation = <<0, 0, 0>>,
            !.angular_velocity = <<0, 0, 0>>]

\* An array held by a telemetry dictionary: its contents, and whether it is
\* the very array object that the lander holds (alias) or one of its own.
\* array.copy(), and the array itself in its place (a variant)
array_itself(a) == [alias |-> TRUE, value |-> a]
array_copy(a) == [alias |-> FALSE, value |-> a]

\* Lander.telemetry_extras(): numbers and lists built for the call
telemetry_extras ==
  [total_mass |-> mass, dry_mass |-> DryMass, fuel_mass |-> fuel_mass,
   fuel_consumption_rate |-> fuel_consumption_rate,
   per_engine_thrust |-> [i \in Engines |-> current_thrust(i)],
   per_engine_enabled |-> enabled]

\* a telemetry dictionary, with the values it had when it was returned (or
\* that the caller gave it since) and the vehicle's arrays before the
\* caller's last change
Telemetry(p, v, o, rest) ==
  [taken |-> TRUE, position |-> array_copy(p), velocity |-> array_copy(v),
   orientation |-> array_copy(o), rest |-> rest,
   returned |-> [position |-> p, velocity |-> v, orientation |-> o,
                 rest |-> rest],
   vehicle_before |-> <<p, v, o>>]
NoSnapshot == [Telemetry(0, 0, <<0, 0, 0>>, <<>>) EXCEPT !.taken = FALSE]

\* Simulator.get_telemetry()
get_telemetry ==
  Telemetry(position, velocity, orientation, telemetry_extras)

\* StepSimulator._telemetry()
stepsim_telemetry(s) ==
  Telemetry(s.position, s.velocity, s.orientation,
            [time |-> s.time,
             status |-> IF s.finished THEN "LANDED" ELSE "DESCENDING"])

\* PhysicsEngine.update writes the lander's arrays in place (+=): an array
\* of the dictionary that is the lander's own shows the new contents
InPlace(cell, value) ==
  IF cell.alias THEN [cell EXCEPT !.value = value] ELSE cell
snapshot_after_update(sn, p, v, o) ==
  [sn EXCEPT !.position = InPlace(@, p), !.velocity = InPlace(@, v),
             !.orientation = InPlace(@, o)]

\* reset gives the lander new arrays: the dictionary's are its own now
snapshot_after_reset(sn) ==
  [sn EXCEPT !.position.alias = FALSE, !.velocity.alias = FALSE,
             !.orientation.alias = FALSE]

\* ------------------------------------------ SimulationWorker, Dashboard
MaxDuration == 3      \* largest duration given to a SimulationWorker
WorkerDt == 1         \* SimulationWorker(dt=0.1): one tick of the model

\* A SimulationWorker: _running, _paused, run()'s local elapsed, the number
\* of sim.step calls, the signals emitted, and pc, the place of the worker
\* thread in run(): "created" (run not begun), "loop" (the test of the outer
\* while), "pause" (the test of the pause loop), "step" (before sim.step),
\* "done" (run has returned).  stopped_in_pause and stop_observed remember
\* that stop() came while the worker waited in the pause loop, and that a
\* loop test has read _running as False.
NoWorker ==
  [pc |-> "none", running |-> FALSE, paused |-> FALSE, elapsed |-> 0,
   duration |-> 0, steps |-> 0,
   emitted |-> [telemetry |-> 0, status_changed |-> 0, finished |-> 0],
   stopped_in_pause |-> FALSE, stop_observed |-> FALSE]

\* SimulationWorker.__init__(simulator, dt, duration)
SimulationWorker(duration) ==
  [NoWorker EXCEPT !.pc = "created", !.duration = duration]

\* run(), up to its loop: _running = True, elapsed = 0.0,
\* status_changed.emit("RUNNING") (sim.reset() is the caller's)
run_begin(w) ==
  [w EXCEPT !.running = TRUE, !.elapsed = 0, !.emitted.status_changed = @ + 1,
            !.pc = "loop"]

\* while self._running and elapsed < self.duration
run_loop_test(w) ==
  IF w.running /\ w.elapsed < w.duration THEN [w EXCEPT !.pc = "pause"]
  ELSE [w EXCEPT !.pc = "done", !.stop_observed = @ \/ ~w.running]

\* while self._paused and self._running: QThread.msleep(50); _running is
\* read only when _paused is set
run_pause_test(w) ==
  IF w.paused /\ w.running THEN w
  ELSE [w EXCEPT !.pc = "step", !.stop_observed = @ \/ (w.paused /\ ~w.running)]

\* the loop's body after tel = self.sim.step(self.dt): telemetry.emit, the
\* break on 'LANDED', elapsed += self.dt
run_after_step(w, status) ==
  LET e == [w EXCEPT !.steps = @ + 1, !.emitted.telemetry = @ + 1]
  IN IF status = "LANDED" THEN [e EXCEPT !.pc = "done"]
     ELSE [e EXCEPT !.elapsed = @ + WorkerDt, !.pc = "loop"]

\* SimulationWorker.stop(), pause(), resume()
worker_stop(w) ==
  [w EXCEPT !.running = FALSE,
            !.stopped_in_pause = @ \/ (w.pc = "pause" /\ w.paused /\ w.running)]
worker_pause(w) == [w EXCEPT !.paused = TRUE]
worker_resume(w) == [w EXCEPT !.paused = FALSE]

\* The Dashboard's sim_worker, sim_thread and simulator_wrapper (TRUE: not
\* None), the control panel's _running and _paused, and waiting: the UI
\* thread is in stop_simulation's sim_thread.wait(2000).
NoDashboard ==
  [sim_worker |-> FALSE, sim_thread |-> FALSE, simulator_wrapper |-> FALSE,
   waiting |-> FALSE, controls_running |-> FALSE, controls_paused |-> FALSE]

\* SimulationPanel.reset_ui()
reset_ui(d) == [d EXCEPT !.controls_running = FALSE, !.controls_paused = FALSE]

\* Dashboard.start_simulation past its guard: the fields it sets
start_simulation(d) ==
  [d EXCEPT !.sim_worker = TRUE, !.sim_thread = TRUE,
            !.simulator_wrapper = TRUE]

\* Dashboard.stop_simulation after the wait, and Dashboard.on_sim_finished
clear_simulation(d) ==
  reset_ui([d EXCEPT !.sim_worker = FALSE, !.sim_thread = FALSE,
                     !.simulator_wrapper = FALSE, !.waiting = FALSE])

\* ---------------------------------------------------------------- inputs
MaxAccel == 3
DtValues == {1, OneSecond}
AccelValues == {-MaxAccel, 0, 1}             \* controller.update(...) results
ManualValues == {0, 6, MaxForce + 1}         \* thrust_force of a manual step
AltitudeValues == {MaxAltitude - 3}          \* initial_altitude of a reset
ThrustArrays(n) == [1..n -> {0, 2}]          \* arrays given to the FuelManager
NoScenario == [type |-> "none", param |-> 0]

\* ------------------------------------------------------------------ Init
\* step(self, dt, thrust_vector=np.array([0.0, 1.0, 0.0]), ...)
DefaultThrustVector == <<0, 1, 0>>

\* no second simulator
NoTwin == [controller |-> NoController]

\* the caller drives the Simulator and holds no telemetry
AppInit == planet = moon /\ worker = NoWorker /\ dashboard = NoDashboard

UiInit ==
  /\ sim_class = "Simulator"
  /\ stepsim = NoStepSim
  /\ snapshot = NoSnapshot

\* no controller has been built and none was called
ExtInit ==
  /\ controller = NoController
  /\ call = NoCall
  /\ thrust_vector = DefaultThrustVector
  /\ twin = NoTwin
  /\ UiInit
  /\ AppInit


\* The vehicle and simulator after construction, with the emergency
\* scenario sc in force.
VehicleInit(sc) ==
  /\ layout \in 1..Len(Layouts)
  /\ scenario = sc
  /\ LET n == Len(Layouts[layout].max_thrust)
         e == apply_initial_scenario(scenario, [i \in 1..n |-> TRUE], Zeros(n))
     IN /\ enabled = e.enabled
        /\ throttle = e.throttle
        /\ throttle_history = [i \in 1..n |-> <<>>]
        /\ issued = [i \in 1..n |-> <<>>]
        /\ applied = Zeros(n)
  /\ fuel_mass = MaxFuel
  /\ fuel_consumption_rate = 0
  /\ initial_altitude = MaxAltitude - 2
  /\ position = initial_altitude
  /\ initial_velocity = -1
  /\ velocity = initial_velocity
  /\ orientation = <<0, 0, 0>>
  /\ angular_velocity = <<0, 0, 0>>
  /\ time = 0
  /\ desired_force = <<0, 0, 0>>
  /\ desired_torque = <<0, 0, 0>>
  /\ thrust_applied = 0
  /\ consumed = 0
  /\ fuel_at_start = fuel_mass
  /\ op = "init"

InitWith(sc) == VehicleInit(sc) /\ ExtInit

\* core/Simulator.py has no emergency handler
Init == InitWith(NoScenario)

\* steps are taken while the vehicle is above ground and inside the bounds
InFlight ==
  /\ position > 0 /\ position <= MaxAltitude
  /\ Abs(velocity) <= MaxSpeed

handler_vars == << scenario, time, throttle_history, issued >>
config_vars == << layout, initial_velocity, desired_force, desired_torque >>
frame_vars == << config_vars, ext_vars >>
motion_vars == << position, velocity, orientation, angular_velocity >>

\* --------------------------------------------------------------- actions
\* Simulator.step(dt) of core/Simulator.py; its constructor always binds a
\* controller, whose output is desired_accel.
StepBody(dt, desired_accel) ==
  /\ InFlight
  /\ \E applied_thrusts \in
         {allocate(Layouts[layout], enabled,
                   <<0, mass * (desired_accel + gravity_at_height(position)), 0>>,
                   <<0, 0, 0>>)} :
     \E thr \in {[i \in Engines |->
                   IF enabled[i] /\ max_thrust(i) > 0
                   THEN ThrottleOf(applied_thrusts[i], max_thrust(i)) ELSE 0]} :
     \E r \in {SimulatorFuel(Layouts[layout], applied_thrusts, thr, fuel_mass,
                             fuel_consumption_rate, dt)} :
     \E ph \in {PhysicsUpdate(position, velocity, orientation, angular_velocity,
                              SumSeq(r.applied), dt, DryMass + r.fuel_mass)} :
        /\ applied' = r.applied
        /\ throttle' = r.throttle
        /\ fuel_mass' = r.fuel_mass
        /\ fuel_consumption_rate' = r.fuel_consumption_rate
        /\ consumed' = r.consumed
        /\ thrust_applied' = SumSeq(r.applied)
        /\ position' = ph.position
        /\ velocity' = ph.velocity
        /\ orientation' = ph.orientation
        /\ angular_velocity' = ph.angular_velocity
  /\ fuel_at_start' = fuel_mass
  /\ op' = "step"
  /\ UNCHANGED << enabled, handler_vars, config_vars, initial_altitude >>

SimulatorStep(dt, desired_accel) ==
  StepBody(dt, desired_accel) /\ UNCHANGED ext_vars

\* Simulator.reset(initial_altitude)
ResetBody(altitude) ==
  /\ op # "reset"
  /\ position' = altitude
  /\ initial_altitude' = altitude
  /\ velocity' = initial_velocity
  /\ orientation' = <<0, 0, 0>>
  /\ angular_velocity' = <<0, 0, 0>>
  /\ fuel_at_start' = fuel_mass
  /\ op' = "reset"
  /\ UNCHANGED << enabled, throttle, fuel_mass, fuel_consumption_rate,
                  handler_vars, config_vars, applied, thrust_applied,
                  consumed >>

SimulatorReset(altitude) ==
  ResetBody(altitude) /\ UNCHANGED ext_vars

\* FuelManager.consume_fuel_for_thrusts(thrusts, dt) called on the vehicle
ConsumeFuelForThrusts(thrusts, dt) ==
  /\ \E r \in {consume_fuel_for_thrusts(Layouts[layout], thrusts, throttle,
                                        fuel_mass, fuel_consumption_rate, dt)} :
        /\ applied' = r.applied
        /\ throttle' = r.throttle
        /\ fuel_mass' = r.fuel_mass
        /\ fuel_consumption_rate' = r.fuel_consumption_rate
        /\ consumed' = r.consumed
  /\ fuel_at_start' = fuel_mass
  /\ op' = "consume_fuel_for_thrusts"
  /\ UNCHANGED << enabled, handler_vars, frame_vars, initial_altitude,
                  motion_vars, thrust_applied >>

\* Lander.consume_fuel(amount_kg, dt) called on the vehicle
ConsumeFuel(amount_kg, dt) ==
  /\ \E c \in {consume_fuel(fuel_mass, amount_kg, dt)} :
        /\ fuel_mass' = c.fuel_mass
        /\ fuel_consumption_rate' = c.fuel_consumption_rate
        /\ consumed' = c.consumed
  /\ fuel_at_start' = fuel_mass
  /\ op' = "consume_fuel"
  /\ UNCHANGED << enabled, throttle, handler_vars, frame_vars,
                  initial_altitude, motion_vars, applied, thrust_applied >>

Next ==
  \/ \E dt \in DtValues, a \in AccelValues : SimulatorStep(dt, a)
  \/ \E h \in AltitudeValues : SimulatorReset(h)
  \/ \E t \in ThrustArrays(N), dt \in DtValues : ConsumeFuelForThrusts(t, dt)
  \/ \E a \in {-1, 2, MaxFuel + 1}, dt \in DtValues : ConsumeFuel(a, dt)

Spec == Init /\ [][Next]_vars

\* ------------------------------------------------- the managed simulator
\* One step of a simulator built from ThrustManager, EmergencyScenarioHandler
\* and FuelManager, in the order of the step function's description: clock,
\* allocation (with the handler's throttle delay), emergency effects, fuel,
\* integration.  alloc is the result of the allocation.
ManagedStepWith(dt, alloc, name) ==
  \E e \in {apply_scenario_effects(scenario, enabled, alloc.throttle)} :
  \E r \in {consume_fuel_for_thrusts(Layouts[layout], alloc.applied, e.throttle,
                                     fuel_mass, fuel_consumption_rate, dt)} :
  \E ph \in {PhysicsUpdate(position, velocity, orientation, angular_velocity,
                           SumSeq(r.applied), dt, DryMass + r.fuel_mass)} :
     /\ time' = time + dt
     /\ throttle_history' = alloc.history
     /\ issued' = [i \in Engines |-> issued[i] \o alloc.commands[i]]
     /\ enabled' = e.enabled
     /\ applied' = r.applied
     /\ throttle' = r.throttle
     /\ fuel_mass' = r.fuel_mass
     /\ fuel_consumption_rate' = r.fuel_consumption_rate
     /\ consumed' = r.consumed
     /\ thrust_applied' = SumSeq(r.applied)
     /\ position' = ph.position
     /\ velocity' = ph.velocity
     /\ orientation' = ph.orientation
     /\ angular_velocity' = ph.angular_velocity
     /\ fuel_at_start' = fuel_mass
     /\ op' = name
     /\ UNCHANGED << scenario, frame_vars, initial_altitude >>

\* a step with a controller bound: ThrustManager.allocate_from_controller
\* (the desired force, the allocation, the throttle update)
ManagedStep(dt, desired_accel) ==
  /\ InFlight
  /\ time + dt <= MaxTime
  /\ \E f \in {controller_force(mass, desired_accel, gravity_at_height(position))} :
     \E u \in {update_throttles_from_thrusts(Layouts[layout], scenario, enabled,
                  throttle_history, time + dt,
                  allocate(Layouts[layout], enabled, f, <<0, 0, 0>>))} :
        ManagedStepWith(dt, u, "step")

\* a step without a controller: ThrustManager.allocate_manual
ManagedManualStep(dt, thrust_force) ==
  /\ InFlight
  /\ time + dt <= MaxTime
  /\ \E m \in {allocate_manual(Layouts[layout], enabled, thrust_force)} :
        ManagedStepWith(dt,
          [applied |-> m.applied, throttle |-> m.throttle,
           history |-> throttle_history,
           commands |-> [i \in Engines |->
                           IF enabled[i] /\ scenario.type = "response_lag"
                                         /\ scenario.param > 0
                           THEN << <<time + dt, m.throttle[i]>> >>
                           ELSE <<>>]], "manual_step")

\* EmergencyScenarioHandler.reset()
HandlerReset ==
  /\ op # "handler_reset"
  /\ \E e \in {apply_initial_scenario(scenario, [i \in Engines |-> TRUE], throttle)} :
        /\ enabled' = e.enabled
        /\ throttle' = e.throttle
  /\ time' = 0
  /\ throttle_history' = [i \in Engines |-> <<>>]
  /\ issued' = [i \in Engines |-> <<>>]
  /\ fuel_at_start' = fuel_mass
  /\ op' = "handler_reset"
  /\ UNCHANGED << scenario, frame_vars, initial_altitude, motion_vars,
                  fuel_mass, fuel_consumption_rate, applied, thrust_applied,
                  consumed >>

\* Lander.set_engine_throttle(index, throttle)
SetEngineThrottle(index, value) ==
  /\ op # "set_engine_throttle"
  /\ throttle' = IF index \in DOMAIN throttle
                 THEN [throttle EXCEPT ![index] = Max(0, Min(ThrottleScale, value))]
                 ELSE throttle
  /\ fuel_at_start' = fuel_mass
  /\ op' = "set_engine_throttle"
  /\ UNCHANGED << enabled, handler_vars, frame_vars, initial_altitude,
                  motion_vars, fuel_mass, fuel_consumption_rate, applied,
                  thrust_applied, consumed >>

InitManaged == \E sc \in Scenarios : InitWith(sc)

NextManaged ==
  \/ \E dt \in DtValues, a \in AccelValues : ManagedStep(dt, a)
  \/ \E dt \in DtValues, f \in ManualValues : ManagedManualStep(dt, f)
  \/ HandlerReset
  \/ \E i \in Engines, t \in {-1, ThrottleScale + 1} :
        SetEngineThrottle(i, t)

SpecManaged == InitManaged /\ [][NextManaged]_vars

\* ------------------------------------------------- the allocator, called
\* desired forces and torques given to ThrustAllocator.allocate
ForceValues ==
  {<<0, fy, 0>> : fy \in {-3, 0, 1, 2, 4, MaxForce, MaxForce + 1}}
  \cup {<<3, 4, 0>>, <<-2, 0, 1>>}
TorqueValues == {<<0, 0, 0>>, <<0, 0, 2>>, <<0, 0, -MaxForce>>, <<1, 0, 0>>}

\* Lander.set_engine_enabled(index, value)
SetEngineEnabled(index, value) ==
  /\ \E e \in {set_engine_enabled(enabled, throttle, index, value)} :
        /\ enabled' = e.enabled
        /\ throttle' = e.throttle
  /\ fuel_at_start' = fuel_mass
  /\ op' = "set_engine_enabled"
  /\ UNCHANGED << handler_vars, frame_vars, initial_altitude, motion_vars,
                  fuel_mass, fuel_consumption_rate, applied, thrust_applied,
                  consumed >>

\* ThrustAllocator.allocate(desired_force, desired_torque)
AllocateCall(f, t) ==
  /\ desired_force' = f
  /\ desired_torque' = t
  /\ applied' = allocate(Layouts[layout], enabled, f, t)
  /\ fuel_at_start' = fuel_mass
  /\ op' = "allocate"
  /\ UNCHANGED << layout, initial_velocity, enabled, throttle, handler_vars,
                  ext_vars, initial_altitude, motion_vars, fuel_mass,
                  fuel_consumption_rate, thrust_applied, consumed >>

NextAlloc ==
  \/ \E i \in Engines, b \in BOOLEAN : SetEngineEnabled(i, b)
  \/ \E f \in ForceValues, t \in TorqueValues : AllocateCall(f, t)

SpecAlloc == Init /\ [][NextAlloc]_vars

\* ------------------------------------------- the controllers, called
\* The factories and the controller methods called directly, as a caller
\* (the dashboard, an experiment script, a test) may call them: one
\* controller is built, then updated and reset in any order.
KindValues ==
  {NoneKind, <<>>, Pid, Lqr, Mpc, <<" ", "P", "I", "D", " ">>, <<"M", "P", "C">>,
   <<"x">>}
ScipyValues == {"available", "missing"}
\* a PID with an integral gain of 1 and a narrow output range, the same
\* without integral gain, and an MPC for lunar gravity with a narrow range
NarrowPidConfig ==
  [kp |-> GainScale, ki |-> GainScale, kd |-> 0, setpoint |-> 0,
   output_limits |-> <<-1, 1>>, activation_altitude |-> 2]
MoonMpcConfig ==
  [MPC_DEFAULTS EXCEPT !.gravity = 162, !.output_limits = <<-1, 1>>]
KwargsValues ==
  {PID_DEFAULTS, LQR_DEFAULTS, MPC_DEFAULTS, NarrowPidConfig, MoonMpcConfig}
MeasurementValues == {-MaxSpeed, 0, 1}
UpdateAltitudes == {0, MpcDefaultActivation + 1}

InitCtl == Init /\ layout = 1

\* what a call on a controller or a factory leaves alone
ctl_frame == << sim_vars, thrust_vector, twin, ui_vars >>

\* controller = make_controller(kind, **kwargs)
MakeController(kind, kwargs, scipy) ==
  /\ controller.kind = "none"
  /\ controller' = make_controller(kind, kwargs, scipy)
  /\ call' = [NoCall EXCEPT !.op = "make_controller", !.kind = kind,
                            !.kwargs = kwargs, !.scipy = scipy]
  /\ UNCHANGED ctl_frame

\* controller = make_controller_by_kind(kind)
MakeControllerByKind(kind, scipy) ==
  /\ controller.kind = "none"
  /\ controller' = make_controller_by_kind(kind, scipy)
  /\ call' = [NoCall EXCEPT !.op = "make_controller_by_kind", !.kind = kind,
                            !.scipy = scipy]
  /\ UNCHANGED ctl_frame

\* controller = make_pid() or make_pid(output_limits=...)
MakePid(output_limits) ==
  /\ controller.kind = "none"
  /\ controller' = make_pid(MakePidDefaults.kp, MakePidDefaults.ki,
                            MakePidDefaults.kd, MakePidDefaults.setpoint,
                            output_limits)
  /\ call' = [NoCall EXCEPT !.op = "make_pid"]
  /\ UNCHANGED ctl_frame

\* the record of an update
UpdateCall(name, measurement, dt, altitude, solver, r) ==
  [NoCall EXCEPT !.op = name, !.measurement = measurement, !.dt = dt,
                 !.altitude = altitude, !.solver = solver,
                 !.output = r.output, !.raw = r.raw,
                 !.integral_before = controller.integral]

\* controller.update(measurement, dt, altitude) on a PID
PidUpdate(measurement, dt, altitude) ==
  /\ controller.kind = "pid"
  /\ Abs(controller.integral) <= MaxIntegral
  /\ \E r \in {pid_update(controller, measurement, dt)} :
       /\ controller' = r.controller
       /\ call' = UpdateCall("pid_update", measurement, dt, altitude, "none", r)
  /\ UNCHANGED ctl_frame

\* controller.update(measurement, dt) on an LQR
LqrUpdate(measurement, dt) ==
  /\ controller.kind = "lqr"
  /\ Abs(controller.pos_est) <= MaxEstimate
  /\ \E r \in {lqr_update(controller, measurement, dt)} :
       /\ controller' = r.controller
       /\ call' = UpdateCall("lqr_update", measurement, dt, 0, "none", r)
  /\ UNCHANGED ctl_frame

\* controller.update(measurement, dt, altitude) on an MPC; the optimizer
\* ends in one of SolverOutcomes
MpcUpdate(measurement, dt, altitude, solver, x) ==
  /\ controller.kind = "mpc"
  /\ Abs(controller.pos_est) <= MaxEstimate
  /\ \E r \in {mpc_update(controller, measurement, dt, altitude, solver, x)} :
       /\ controller' = r.controller
       /\ call' = UpdateCall("mpc_update", measurement, dt, altitude, solver, r)
  /\ UNCHANGED ctl_frame

\* controller.reset()
ControllerReset ==
  /\ controller.kind \in {"pid", "lqr", "mpc"}
  /\ controller' = controller_reset(controller)
  /\ call' = [NoCall EXCEPT !.op = "reset"]
  /\ UNCHANGED ctl_frame

NextCtl ==
  \/ \E kind \in KindValues, kwargs \in KwargsValues, scipy \in ScipyValues :
       MakeController(kind, kwargs, scipy)
  \/ \E kind \in KindValues, scipy \in ScipyValues :
       MakeControllerByKind(kind, scipy)
  \/ \E output_limits \in {None, <<-1, 1>>} : MakePid(output_limits)
  \/ \E measurement \in MeasurementValues, dt \in DtValues,
        altitude \in UpdateAltitudes :
       PidUpdate(measurement, dt, altitude)
  \/ \E measurement \in MeasurementValues, dt \in DtValues :
       LqrUpdate(measurement, dt)
  \/ \E measurement \in MeasurementValues, dt \in DtValues,
        altitude \in UpdateAltitudes, solver \in SolverOutcomes :
       \E x \in (IF solver = "success" /\ controller.kind = "mpc"
                 THEN OptimizerResults(controller) ELSE {0}) :
         MpcUpdate(measurement, dt, altitude, solver, x)
  \/ ControllerReset

SpecCtl == InitCtl /\ [][NextCtl]_vars

\* ------------------------------- the simulator with its controller
\* Simulator.step(dt) with the controller that the constructor bound, and a
\* second simulator built from the same configuration that receives the
\* same calls, each call right after the first simulator's.

\* controller.update(vertical_velocity, dt), whatever the kind
controller_update(c, measurement, dt, solver, x) ==
  CASE c.kind = "pid" -> pid_update(c, measurement, dt)
    [] c.kind = "lqr" -> lqr_update(c, measurement, dt)
    [] OTHER -> mpc_update(c, measurement, dt, 0, solver, x)

\* v / (norm(v) + 1e-12) for a vector along one axis
Normalized(v) == [k \in 1..3 |-> Sign(v[k])]

\* Simulator.step lines 52-54 with np.asarray returning its argument: the
\* desired force, and the array thrust_vector after these lines.  This
\* variant divides and multiplies in place.
desired_force_vec_in_place(tv, total_required) ==
  LET f == [k \in 1..3 |-> Normalized(tv)[k] * total_required]
  IN [force |-> f, thrust_vector |-> f]
desired_force_vec(tv, total_required) ==
  [force |-> [k \in 1..3 |-> Normalized(tv)[k] * total_required],
   thrust_vector |-> tv]

\* the state of a simulator that a step or a reset changes
SimState ==
  [position |-> position, velocity |-> velocity, orientation |-> orientation,
   angular_velocity |-> angular_velocity, fuel_mass |-> fuel_mass,
   fuel_consumption_rate |-> fuel_consumption_rate, throttle |-> throttle,
   applied |-> applied, thrust_applied |-> thrust_applied,
   consumed |-> consumed, controller |-> controller]

\* Simulator.step(dt) on the simulator state s with the default
\* thrust_vector array tv; the controller's output is rounded down to a
\* whole acceleration
simulator_step(s, tv, dt, solver, x) ==
  LET u == controller_update(s.controller, s.velocity, dt, solver, x)
      desired_accel == u.output \div OutScale
      total_required ==
        (DryMass + s.fuel_mass) * (desired_accel + gravity_at_height(s.position))
      f == desired_force_vec(tv, total_required)
      applied_thrusts == allocate(Layouts[layout], enabled, f.force, <<0, 0, 0>>)
      thr == [i \in Engines |->
                IF enabled[i] /\ max_thrust(i) > 0
                THEN ThrottleOf(applied_thrusts[i], max_thrust(i)) ELSE 0]
      r == SimulatorFuel(Layouts[layout], applied_thrusts, thr, s.fuel_mass,
                         s.fuel_consumption_rate, dt)
      ph == PhysicsUpdate(s.position, s.velocity, s.orientation,
                          s.angular_velocity,
                          Normalized(f.thrust_vector)[2] * SumSeq(r.applied),
                          dt, DryMass + r.fuel_mass)
  IN [state |->
        [position |-> ph.position, velocity |-> ph.velocity,
         orientation |-> ph.orientation,
         angular_velocity |-> ph.angular_velocity,
         fuel_mass |-> r.fuel_mass,
         fuel_consumption_rate |-> r.fuel_consumption_rate,
         throttle |-> r.throttle, applied |-> r.applied,
         thrust_applied |-> SumSeq(r.applied), consumed |-> r.consumed,
         controller |-> u.controller],
      output |-> u.output, raw |-> u.raw,
      thrust_vector |-> f.thrust_vector]

\* Simulator.reset(initial_altitude) on the simulator state s
simulator_reset(s, altitude) ==
  [s EXCEPT !.position = altitude, !.velocity = initial_velocity,
            !.orientation = <<0, 0, 0>>, !.angular_velocity = <<0, 0, 0>>]

\* the controllers a simulator is built with
SimControllers ==
  {make_controller_by_kind(kind, scipy) :
     kind \in {NoneKind, Pid, Lqr}, scipy \in ScipyValues}
  \cup {make_controller(Pid, NarrowPidConfig, "available")}

\* the state is small enough for another step
Steppable(s) ==
  /\ s.position > 0 /\ s.position <= MaxAltitude
  /\ Abs(s.velocity) <= MaxSpeed
  /\ Abs(s.controller.integral) <= MaxIntegral
  /\ Abs(s.controller.pos_est) <= MaxEstimate

InitSim ==
  /\ VehicleInit(NoScenario)
  /\ controller \in SimControllers
  /\ call = NoCall
  /\ thrust_vector = DefaultThrustVector
  /\ twin = SimState
  /\ UiInit
  /\ AppInit

\* sim.step(dt); twin.step(dt)
ControlledStep(dt, solver, x) ==
  /\ Steppable(SimState) /\ Steppable(twin)
  /\ \E r \in {simulator_step(SimState, thrust_vector, dt, solver, x)} :
     \E t \in {simulator_step(twin, r.thrust_vector, dt, solver, x)} :
        /\ position' = r.state.position
        /\ velocity' = r.state.velocity
        /\ orientation' = r.state.orientation
        /\ angular_velocity' = r.state.angular_velocity
        /\ fuel_mass' = r.state.fuel_mass
        /\ fuel_consumption_rate' = r.state.fuel_consumption_rate
        /\ throttle' = r.state.throttle
        /\ applied' = r.state.applied
        /\ thrust_applied' = r.state.thrust_applied
        /\ consumed' = r.state.consumed
        /\ controller' = r.state.controller
        /\ call' = [NoCall EXCEPT !.op = "update", !.measurement = velocity,
                                  !.dt = dt, !.solver = solver,
                                  !.output = r.output, !.raw = r.raw]
        /\ twin' = t.state
        /\ thrust_vector' = t.thrust_vector
  /\ fuel_at_start' = fuel_mass
  /\ op' = "step"
  /\ UNCHANGED << enabled, handler_vars, config_vars, initial_altitude,
                  ui_vars >>

\* sim.reset(altitude); twin.reset(altitude)
ControlledReset(altitude) ==
  /\ op # "reset"
  /\ position' = altitude
  /\ initial_altitude' = altitude
  /\ velocity' = initial_velocity
  /\ orientation' = <<0, 0, 0>>
  /\ angular_velocity' = <<0, 0, 0>>
  /\ twin' = simulator_reset(twin, altitude)
  /\ fuel_at_start' = fuel_mass
  /\ op' = "reset"
  /\ UNCHANGED << enabled, throttle, fuel_mass, fuel_consumption_rate,
                  handler_vars, config_vars, applied, thrust_applied,
                  consumed, controller, call, thrust_vector, ui_vars >>

NextSim ==
  \/ \E dt \in DtValues :
       \E solver \in (IF controller.kind = "mpc" THEN SolverOutcomes
                      ELSE {"none"}) :
       \E x \in (IF solver = "success" THEN OptimizerResults(controller)
                 ELSE {0}) :
         ControlledStep(dt, solver, x)
  \/ \E h \in AltitudeValues : ControlledReset(h)

SpecSim == InitSim /\ [][NextSim]_vars

\* --------------------------------------------- the simulator, as driven
\* A caller (the worker thread of the dashboard, an experiment) holds one
\* simulator, a Simulator or a StepSimulator, steps and resets it, keeps a
\* telemetry dictionary and may write into the arrays of that dictionary.
StepSimControllers ==
  {NoController,
   make_pid(MakePidDefaults.kp, MakePidDefaults.ki, MakePidDefaults.kd,
            MakePidDefaults.setpoint, None)}
\* the initial_altitude of a StepSimulator
StepAltitudes == {2, 3}
\* what the caller writes into an array of the dictionary
WrittenValues == {0, 1}

InitUi ==
  /\ VehicleInit(NoScenario)
  /\ layout = 1
  /\ controller = NoController
  /\ call = NoCall
  /\ thrust_vector = DefaultThrustVector
  /\ twin = NoTwin
  /\ snapshot = NoSnapshot
  /\ AppInit
  /\ \/ sim_class = "Simulator" /\ stepsim = NoStepSim
     \/ /\ sim_class = "StepSimulator"
        /\ \E c \in StepSimControllers, h \in StepAltitudes :
             stepsim = StepSimulator(c, h)

\* the position, velocity and orientation arrays of the simulator's lander
VehicleArrays ==
  IF sim_class = "Simulator" THEN <<position, velocity, orientation>>
  ELSE <<stepsim.position, stepsim.velocity, stepsim.orientation>>

ui_frame == << controller, call, thrust_vector, twin, sim_class, app_vars >>

\* Simulator.step(dt)
UiSimulatorStep(dt, desired_accel) ==
  /\ sim_class = "Simulator"
  /\ StepBody(dt, desired_accel)
  /\ snapshot' = snapshot_after_update(snapshot, position', velocity',
                                       orientation')
  /\ UNCHANGED << ui_frame, stepsim >>

\* Simulator.reset(initial_altitude)
UiSimulatorReset(altitude) ==
  /\ sim_class = "Simulator"
  /\ ResetBody(altitude)
  /\ snapshot' = snapshot_after_reset(snapshot)
  /\ UNCHANGED << ui_frame, stepsim >>

\* snapshot = Simulator.get_telemetry()
GetTelemetry ==
  /\ sim_class = "Simulator"
  /\ snapshot' = get_telemetry
  /\ op' = "get_telemetry"
  /\ UNCHANGED << layout, enabled, throttle, fuel_mass, fuel_consumption_rate,
                  motion_vars, initial_velocity, initial_altitude,
                  handler_vars, desired_force, desired_torque, applied,
                  thrust_applied, consumed, fuel_at_start, ui_frame, stepsim >>

\* StepSimulator.step(dt); the caller keeps the telemetry it returns, or
\* drops it and keeps the one it has
StepSimulatorStep(dt, keep) ==
  /\ sim_class = "StepSimulator"
  /\ stepsim.time < MaxStepTime
  /\ stepsim.position > -MaxAltitude
  /\ Abs(stepsim.controller.integral) <= MaxIntegral
  /\ \E s \in {stepsim_step(stepsim, dt)} :
       /\ stepsim' = s
       /\ snapshot' = IF keep \/ ~snapshot.taken THEN stepsim_telemetry(s)
                      ELSE snapshot_after_update(snapshot, s.position,
                                                 s.velocity, s.orientation)
  /\ op' = "step"
  /\ UNCHANGED << layout, enabled, throttle, fuel_mass, fuel_consumption_rate,
                  motion_vars, initial_velocity, initial_altitude,
                  handler_vars, desired_force, desired_torque, applied,
                  thrust_applied, consumed, fuel_at_start, ui_frame >>

\* StepSimulator.reset()
StepSimulatorReset ==
  /\ sim_class = "StepSimulator"
  /\ op # "reset"
  /\ stepsim' = stepsim_reset(stepsim)
  /\ snapshot' = snapshot_after_reset(snapshot)
  /\ op' = "reset"
  /\ UNCHANGED << layout, enabled, throttle, fuel_mass, fuel_consumption_rate,
                  motion_vars, initial_velocity, initial_altitude,
                  handler_vars, desired_force, desired_torque, applied,
                  thrust_applied, consumed, fuel_at_start, ui_frame >>

\* snapshot['position'][1] = value or snapshot['velocity'][1] = value: the
\* write reaches the lander when the array is the lander's own
ChangeSnapshot(field, value) ==
  /\ snapshot.taken
  /\ op # "change_snapshot"
  /\ snapshot.returned[field] # value
  /\ snapshot' = [snapshot EXCEPT ![field].value = value,
                                  !.returned[field] = value,
                                  !.vehicle_before = VehicleArrays]
  /\ \E toLander \in {snapshot[field].alias} :
       /\ position' = IF toLander /\ sim_class = "Simulator"
                         /\ field = "position" THEN value ELSE position
       /\ velocity' = IF toLander /\ sim_class = "Simulator"
                         /\ field = "velocity" THEN value ELSE velocity
       /\ stepsim' = IF toLander /\ sim_class = "StepSimulator"
                     THEN [stepsim EXCEPT ![field] = value] ELSE stepsim
  /\ op' = "change_snapshot"
  /\ UNCHANGED << layout, enabled, throttle, fuel_mass, fuel_consumption_rate,
                  orientation, angular_velocity, initial_velocity,
                  initial_altitude, handler_vars, desired_force,
                  desired_torque, applied, thrust_applied, consumed,
                  fuel_at_start, ui_frame >>

NextUi ==
  \/ \E dt \in DtValues, a \in AccelValues : UiSimulatorStep(dt, a)
  \/ \E h \in AltitudeValues : UiSimulatorReset(h)
  \/ GetTelemetry
  \/ \E dt \in DtValues, keep \in BOOLEAN : StepSimulatorStep(dt, keep)
  \/ StepSimulatorReset
  \/ \E field \in {"position", "velocity"}, value \in WrittenValues :
       ChangeSnapshot(field, value)

SpecUi == InitUi /\ [][NextUi]_vars

\* ------------------------------------------- the response lag, called
MaxLagTime == 6       \* update_time is called while time <= MaxLagTime
MaxCommands == 3      \* commands issued to one engine between two resets
\* dt of update_time: half a second, one second, two seconds
LagDtValues == {1, OneSecond, 2 * OneSecond}
\* thrust arrays given to _update_throttles_from_thrusts
LagThrusts(n) == [1..n -> {0, 2}]

InitLag ==
  /\ \E d \in DelayValues : InitWith([type |-> "response_lag", param |-> d])
  /\ layout \in {1, 3}

\* EmergencyScenarioHandler.update_time(dt)
UpdateTime(dt) ==
  /\ time + dt <= MaxLagTime
  /\ time' = time + dt
  /\ fuel_at_start' = fuel_mass
  /\ op' = "update_time"
  /\ UNCHANGED << scenario, throttle_history, issued, enabled, throttle,
                  frame_vars, initial_altitude, motion_vars, fuel_mass,
                  fuel_consumption_rate, applied, thrust_applied, consumed >>

\* ThrustManager._update_throttles_from_thrusts(thrusts): one
\* modify_throttle_command per enabled engine
UpdateThrottlesFromThrusts(thrusts) ==
  /\ \A i \in Engines : Len(issued[i]) < MaxCommands
  /\ \E u \in {update_throttles_from_thrusts(Layouts[layout], scenario, enabled,
                                              throttle_history, time, thrusts)} :
        /\ throttle' = u.throttle
        /\ applied' = u.applied
        /\ throttle_history' = u.history
        /\ issued' = [i \in Engines |-> issued[i] \o u.commands[i]]
  /\ fuel_at_start' = fuel_mass
  /\ op' = "update_throttles"
  /\ UNCHANGED << scenario, time, enabled, frame_vars, initial_altitude,
                  motion_vars, fuel_mass, fuel_consumption_rate,
                  thrust_applied, consumed >>

NextLag ==
  \/ \E dt \in LagDtValues : UpdateTime(dt)
  \/ \E t \in LagThrusts(N) : UpdateThrottlesFromThrusts(t)
  \/ HandlerReset

SpecLag == InitLag /\ [][NextLag]_vars

\* --------------------------------------- the worker and the dashboard
\* duration of a worker and initial altitude of its StepSimulator: one that
\* lands within the duration and one that does not
DurationValues == {1, MaxDuration}
WorkerAltitudes == {2, MaxAltitude}

InitWorker ==
  /\ VehicleInit(NoScenario)
  /\ layout = 1
  /\ controller = NoController
  /\ call = NoCall
  /\ thrust_vector = DefaultThrustVector
  /\ twin = NoTwin
  /\ snapshot = NoSnapshot
  /\ sim_class = "StepSimulator"
  /\ stepsim = NoStepSim
  /\ AppInit

worker_frame == << layout, enabled, throttle, fuel_mass, fuel_consumption_rate, motion_vars, initial_velocity, initial_altitude, handler_vars, desired_force, desired_torque, applied, thrust_applied, consumed, fuel_at_start, controller, call, thrust_vector, twin, sim_class, snapshot, planet >>

\* Dashboard.start_simulation(config): ignored while sim_worker is not None
\* (in the model also while an earlier worker's thread has not ended);
\* else a StepSimulator, a worker and its thread are made and started
StartSimulation(altitude, duration) ==
  /\ ~dashboard.waiting
  /\ worker.pc \in {"none", "done"}
  /\ IF dashboard.sim_worker
     THEN /\ op' = "start_ignored"
          /\ UNCHANGED << stepsim, worker, dashboard >>
     ELSE /\ stepsim' = StepSimulator(NoController, altitude)
          /\ worker' = SimulationWorker(duration)
          /\ dashboard' = start_simulation(dashboard)
          /\ op' = "start_simulation"
  /\ UNCHANGED worker_frame

\* SimulationPanel._on_start(): the Start button
OnStart(altitude, duration) ==
  /\ ~dashboard.waiting
  /\ worker.pc \in {"none", "done"}
  /\ ~dashboard.controls_running
  /\ \E d \in {[dashboard EXCEPT !.controls_running = TRUE,
                                  !.controls_paused = FALSE]} :
       IF d.sim_worker
       THEN /\ dashboard' = d
            /\ UNCHANGED << stepsim, worker >>
       ELSE /\ stepsim' = StepSimulator(NoController, altitude)
            /\ worker' = SimulationWorker(duration)
            /\ dashboard' = start_simulation(d)
  /\ op' = "on_start"
  /\ UNCHANGED worker_frame

\* SimulationPanel._on_pause_toggle() and Dashboard._on_pause_toggled
OnPauseToggle ==
  /\ ~dashboard.waiting
  /\ dashboard.controls_running
  /\ dashboard' = [dashboard EXCEPT !.controls_paused = ~@]
  /\ worker' = IF ~dashboard.sim_worker THEN worker
               ELSE IF dashboard'.controls_paused THEN worker_pause(worker)
               ELSE worker_resume(worker)
  /\ op' = "on_pause_toggle"
  /\ UNCHANGED << stepsim, worker_frame >>

\* Dashboard.stop_simulation() up to sim_thread.wait(2000): stop() is called
\* on the worker from the UI thread
StopSimulation ==
  /\ ~dashboard.waiting
  /\ op # "stop_simulation"
  /\ worker' = IF dashboard.sim_worker THEN worker_stop(worker) ELSE worker
  /\ dashboard' = [dashboard EXCEPT !.waiting = TRUE]
  /\ op' = "stop_simulation"
  /\ UNCHANGED << stepsim, worker_frame >>

\* the rest of stop_simulation, when the thread has ended or the 2000 ms
\* have passed
StopSimulationReturns ==
  /\ dashboard.waiting
  /\ dashboard' = clear_simulation(dashboard)
  /\ op' = "stop_returned"
  /\ UNCHANGED << stepsim, worker, worker_frame >>

\* run() begins in the worker thread: sim.reset() and the lines before the loop
RunBegins ==
  /\ worker.pc = "created"
  /\ stepsim' = stepsim_reset(stepsim)
  /\ worker' = run_begin(worker)
  /\ op' = "run"
  /\ UNCHANGED << dashboard, worker_frame >>

\* the worker thread evaluates the outer while's condition
RunLoopTest ==
  /\ worker.pc = "loop"
  /\ worker' = run_loop_test(worker)
  /\ op' = "run"
  /\ UNCHANGED << stepsim, dashboard, worker_frame >>

\* the worker thread evaluates the pause loop's condition
RunPauseTest ==
  /\ worker.pc = "pause"
  /\ worker' = run_pause_test(worker)
  /\ op' = "run"
  /\ UNCHANGED << stepsim, dashboard, worker_frame >>

\* tel = self.sim.step(self.dt) and the rest of the loop's body
RunStep ==
  /\ worker.pc = "step"
  /\ \E s \in {stepsim_step(stepsim, WorkerDt)} :
       /\ stepsim' = s
       /\ worker' = run_after_step(worker, stepsim_telemetry(s).rest.status)
  /\ op' = "run"
  /\ UNCHANGED << dashboard, worker_frame >>

NextWorker ==
  \/ \E h \in WorkerAltitudes, d \in DurationValues : StartSimulation(h, d)
  \/ \E h \in WorkerAltitudes, d \in DurationValues : OnStart(h, d)
  \/ OnPauseToggle
  \/ StopSimulation
  \/ StopSimulationReturns
  \/ RunBegins
  \/ RunLoopTest
  \/ RunPauseTest
  \/ RunStep

SpecWorker == InitWorker /\ [][NextWorker]_vars

\* --------------------------------------------------- the planet, called
MaxHeight == 40       \* largest height given to gravity_at_height
\* moon, mars and earth: surface gravity and radius in the model's units
Planets == {moon, Planet(4, 16), Planet(10, 29)}
\* None, heights below the surface, the surface and heights above it
HeightValues == {None} \cup {<<h>> : h \in -2..MaxHeight}

InitPlanet ==
  /\ VehicleInit(NoScenario)
  /\ layout = 1
  /\ controller = NoController
  /\ call = NoCall
  /\ thrust_vector = DefaultThrustVector
  /\ twin = NoTwin
  /\ UiInit
  /\ planet \in Planets
  /\ worker = NoWorker
  /\ dashboard = NoDashboard

\* planet.gravity_at_height(height)
GravityAtHeight(height) ==
  /\ planet' = [planet EXCEPT !.called = TRUE, !.height = height,
                              !.result = gravity_ratio(planet, height)]
  /\ UNCHANGED << sim_vars, controller, call, thrust_vector, twin, sim_class,
                  stepsim, snapshot, worker, dashboard >>

NextPlanet == \E height \in HeightValues : GravityAtHeight(height)

SpecPlanet == InitPlanet /\ [][NextPlanet]_vars


\* ------------------------------------------------------------ properties
FuelOps == {"step", "consume_fuel_for_thrusts", "consume_fuel"}
StepOps == {"step", "manual_step"}

\* C1 (fuel conservation): fuel_mass is never negative, and after every
\* operation that draws fuel (a step, FuelManager.consume_fuel_for_thrusts,
\* Lander.consume_fuel) fuel_mass is the fuel held before the call minus the
\* amount consumed, which is between 0 and the fuel held before the call.
FuelConservation ==
  /\ fuel_mass >= 0
  /\ op \in FuelOps =>
       /\ fuel_mass = fuel_at_start - consumed
       /\ consumed >= 0
       /\ consumed <= fuel_at_start

\* a call that asked for more than the tank held and emptied it
FuelRunsOut ==
  /\ op \in {"consume_fuel_for_thrusts", "consume_fuel"}
  /\ fuel_at_start > 0
  /\ consumed = fuel_at_start
  /\ fuel_mass = 0

\* C2 (throttle bounds): every engine's throttle is in [0, 1] in every state
\* reached through controller-driven and manual allocation, the emergency
\* scenarios and fuel limiting.
ThrottleWithinUnitRange ==
  \A i \in Engines : throttle[i] >= 0 /\ throttle[i] <= ThrottleScale

\* C3 (thrust capacity): after every step the total thrust applied, which
\* is what the integrator receives, is at most the sum of max_thrust over
\* the enabled engines.
TotalThrustWithinEnabledCapacity ==
  op \in StepOps =>
    /\ SumSeq(applied) <= get_max_total_thrust
    /\ thrust_applied <= get_max_total_thrust

\* a step that applied the whole capacity left by a failed engine
ThrustAtCapacity ==
  /\ op = "manual_step"
  /\ \E i \in Engines : ~enabled[i]
  /\ thrust_applied > 0
  /\ thrust_applied = get_max_total_thrust

\* C4 (allocator bounds): whatever the desired force and torque and whatever
\* engines are enabled, allocate returns for engine i a thrust in
\* [0, max_thrust_i], and 0 for a disabled engine; this is stated of the
\* whole units returned and of the exact values.
AllocateWithinLimits ==
  op = "allocate" =>
    LET a == allocate_scaled(Layouts[layout], enabled, desired_force, desired_torque)
        D == Denom(Layouts[layout])
    IN \A i \in Engines :
         /\ applied[i] >= 0 /\ applied[i] <= max_thrust(i)
         /\ a[i] >= 0 /\ a[i] <= D * max_thrust(i)
         /\ ~enabled[i] => (applied[i] = 0 /\ a[i] = 0)

\* a call with a torque request that saturates one engine while another
\* engine is disabled
AllocateSaturatesBesideDisabled ==
  /\ op = "allocate"
  /\ desired_torque[3] < 0
  /\ \E i \in Engines : ~enabled[i]
  /\ \E j \in Engines : enabled[j] /\ applied[j] = max_thrust(j)

\* the enabled engines of layout L can produce the vertical force fy with
\* zero net torque, each within its capacity
Reachable(L, en, fy) ==
  \E u \in [1..Len(L.max_thrust) -> 0..MaxForce] :
     /\ \A i \in 1..Len(L.max_thrust) : u[i] <= max_thrusts(L, en)[i]
     /\ SumSeq(u) = fy
     /\ SumSeq([i \in 1..Len(L.max_thrust) |-> L.xpos[i] * u[i]]) = 0

\* C5 (allocator feasibility): for a desired force the enabled engines can
\* produce within capacity, with zero desired torque, the thrusts allocate
\* returns have the requested net force and zero net torque, within the
\* rounding of the exact values (less than one 1/Denom per engine).
AllocatorFeasible ==
  (/\ op = "allocate"
   /\ desired_torque = <<0, 0, 0>>
   /\ desired_force[1] = 0 /\ desired_force[3] = 0 /\ desired_force[2] > 0
   /\ Reachable(Layouts[layout], enabled, desired_force[2]))
  => LET L == Layouts[layout]
         a == allocate_scaled(L, enabled, desired_force, desired_torque)
     IN /\ Abs(SumSeq(a) - Denom(L) * desired_force[2]) <= N
        /\ Abs(SumSeq([i \in Engines |-> L.xpos[i] * a[i]])) <= N

\* C6 (response lag): under response_lag with delay > 0, after every step,
\* controller-driven or manual, an engine's throttle is 0 unless a nonzero
\* command issued to that engine is at least delay old.
ResponseLagDelaysEveryCommand ==
  (scenario.type = "response_lag" /\ scenario.param > 0 /\ op \in StepOps) =>
    \A i \in Engines :
      throttle[i] # 0 =>
        \E k \in 1..Len(issued[i]) :
           /\ time - issued[i][k][1] >= scenario.param
           /\ issued[i][k][2] # 0

\* C7 (engine failure): under engine_failure{count} exactly max(0, n - count)
\* engines are enabled, the first count are disabled, and their throttle is
\* 0 after construction, after every step and after every handler reset.
EngineFailureDisablesCount ==
  scenario.type = "engine_failure" =>
    /\ Cardinality({i \in Engines : enabled[i]}) = Max(0, N - scenario.param)
    /\ \A i \in 1..Min(scenario.param, N) :
         /\ ~enabled[i]
         /\ op # "set_engine_throttle" => throttle[i] = 0

\* a handler reset after steps that burnt fuel, with an engine left enabled
EngineFailureAfterReset ==
  /\ scenario.type = "engine_failure"
  /\ op = "handler_reset"
  /\ fuel_mass < MaxFuel
  /\ N > scenario.param

\* C8 (zero fuel): a step begun with fuel_mass = 0 leaves every engine with
\* current_thrust = 0 and passes thrust 0 to the integrator, whatever the
\* demand and the emergency scenario.
NoFuelNoThrust ==
  (fuel_at_start = 0 /\ op \in StepOps) =>
    /\ \A i \in Engines : current_thrust(i) = 0
    /\ thrust_applied = 0

\* C9 (disabled engines): a disabled engine reports current_thrust 0 and
\* get_total_thrust counts only the enabled engines, whatever the throttle
\* field of a disabled engine holds.
DisabledEngineReportsNoThrust ==
  /\ \A i \in Engines : ~enabled[i] => current_thrust(i) = 0
  /\ get_total_thrust =
       SumSeq([i \in Engines |->
                 IF enabled[i]
                 THEN (max_thrust(i) * throttle[i]) \div ThrottleScale ELSE 0])

\* set_engine_throttle has set the throttle field of a disabled engine
DisabledEngineThrottled ==
  /\ op = "set_engine_throttle"
  /\ \E i \in Engines : ~enabled[i] /\ throttle[i] = ThrottleScale

\* C10 (simulator reset): after Simulator.reset(initial_altitude) the fuel
\* is max_fuel_mass again, the altitude is initial_altitude, the velocity is
\* the stored initial velocity and orientation and angular velocity are 0.
ResetRestoresVehicle ==
  op = "reset" =>
    /\ fuel_mass = MaxFuel
    /\ position = initial_altitude
    /\ velocity = initial_velocity
    /\ orientation = <<0, 0, 0>>
    /\ angular_velocity = <<0, 0, 0>>

\* a kind that names a controller after trimming and lower-casing
KnownKind(kind) == kind # NoneKind /\ StripLower(kind) \in {Pid, Lqr, Mpc}

\* C12: building a controller with a kind other than pid, lqr or mpc
\* (unknown, empty or missing) fails, in make_controller and in
\* make_controller_by_kind alike; no controller of a default kind comes back.
UnknownKindIsAnError ==
  (call.op \in {"make_controller", "make_controller_by_kind"}
     /\ ~KnownKind(call.kind))
    => controller.kind = "error"

\* C13: a PID or an MPC built by make_controller has the
\* activation_altitude of its configuration, and an MPC has its gravity,
\* also in the disturbance term d_d.
ControllerCarriesOptions ==
  (call.op = "make_controller" /\ controller.kind \in {"pid", "mpc"})
    => /\ "activation_altitude" \in DOMAIN call.kwargs
            => controller.activation_altitude = call.kwargs.activation_altitude
       /\ (controller.kind = "mpc" /\ "gravity" \in DOMAIN call.kwargs)
            => /\ controller.gravity = call.kwargs.gravity
               /\ controller.d_d = -(call.kwargs.dt_nom * call.kwargs.gravity)

\* C14: an update of a PID with output limits whose output is saturated
\* does not let the integral accumulator grow, so that no run of saturated
\* updates moves it beyond where it was when the saturation began.
IntegralHeldWhileSaturated ==
  (call.op = "pid_update" /\ Saturated(controller, call.raw))
    => Abs(controller.integral) <= Abs(call.integral_before)

\* C15: the gain K computed at construction for the default A, B, Q, R
\* has both entries strictly positive, that is A - B K has both
\* eigenvalues in the open left half plane, on every path of
\* _compute_lqr_gain.
LqrGainStabilizes ==
  controller.kind = "lqr" => (controller.K[1] > 0 /\ controller.K[2] > 0)

\* C16: the acceleration returned by MPCController.update lies within
\* [u_min, u_max], and when the optimizer fails, raises or is missing it
\* is -0.1 pos_err - 0.6 vel_err clamped to that range.
MpcOutputWithinLimits ==
  call.op = "mpc_update"
    => LET lo == controller.limits[1] * OutScale
           hi == controller.limits[2] * OutScale
           pd == -(10 * controller.pos_est
                     + 60 * OneSecond * (controller.vel_est - controller.setpoint))
       IN /\ lo <= call.output /\ call.output <= hi
          /\ call.solver # "success"
               => call.output = (IF pd < lo THEN lo ELSE IF pd > hi THEN hi ELSE pd)

\* the optimizer raised and the PD value was below u_min
MpcFallbackClamped ==
  /\ call.op = "mpc_update"
  /\ call.solver = "raised"
  /\ call.raw < controller.limits[1] * OutScale
  /\ call.output = controller.limits[1] * OutScale

\* C17: above the activation altitude MPCController.update returns 0.
MpcInactiveAboveActivation ==
  (call.op = "mpc_update" /\ call.altitude > controller.activation_altitude)
    => call.output = 0

\* the controller's internal state is as after construction
ControllerCleared ==
  /\ controller.integral = 0 /\ controller.prev_error = 0
  /\ controller.pos_est = 0 /\ controller.vel_est = 0

\* C11: after Simulator.reset the bound controller's internal state is
\* cleared: the PID integral and prev_error are 0, the LQR and MPC
\* pos_est and vel_est are 0.
ResetClearsController ==
  op = "reset" => ControllerCleared

SnapshotIsValue ==
  snapshot.taken
    => /\ snapshot.position.value = snapshot.returned.position
       /\ snapshot.velocity.value = snapshot.returned.velocity
       /\ snapshot.orientation.value = snapshot.returned.orientation
       /\ snapshot.rest = snapshot.returned.rest
       /\ op = "change_snapshot" => VehicleArrays = snapshot.vehicle_before

\* the vehicle has moved on from a dictionary returned earlier, in which
\* the caller had changed the position
SnapshotOutlived ==
  /\ snapshot.taken
  /\ op \in {"step", "reset"}
  /\ snapshot.returned.position # snapshot.vehicle_before[1]
  /\ VehicleArrays[1] # snapshot.returned.position
  /\ VehicleArrays[2] # snapshot.returned.velocity

\* C19: after StepSimulator.reset() the time is 0, finished is false,
\* velocity, orientation and angular velocity are zero and the altitude is
\* the initial_altitude given at construction.
StepSimulatorResetRestores ==
  (sim_class = "StepSimulator" /\ op = "reset")
    => /\ stepsim.time = 0
       /\ ~stepsim.finished
       /\ stepsim.velocity = 0
       /\ stepsim.orientation = <<0, 0, 0>>
       /\ stepsim.angular_velocity = <<0, 0, 0>>
       /\ stepsim.position = stepsim.initial_altitude

\* the fraction a is less than the fraction b
GravityLess(a, b) == a.num * b.den < b.num * a.den

\* C21 (gravity with height): gravity_at_height of a height of 0 or below is
\* the surface gravity, and above the surface it is strictly decreasing:
\* the value at a height h > 0 is greater than the value at every greater
\* height.
GravityDecreasesWithHeight ==
  (planet.called /\ planet.height # None) =>
    LET h == planet.height[1]
    IN /\ h <= 0 => planet.result.num = planet.gravity * planet.result.den
       /\ \A h2 \in 1..(MaxHeight + 1) :
            (0 < h /\ h < h2) =>
              GravityLess(gravity_ratio(planet, <<h2>>), planet.result)

\* gravity_at_height of a planet other than the moon was called with a
\* height above the surface
GravityAboveSurface ==
  /\ planet.called /\ planet.height # None
  /\ planet.height[1] > 0 /\ planet.height[1] < MaxHeight
  /\ planet.gravity # SurfaceGravity

\* C22 (redistribution): for a desired force along the engines' common
\* direction, the thrusts allocate returns sum to no more than the requested
\* force magnitude, whether or not it redistributed, and it redistributes
\* only when the clipped least-squares solution gives less than the
\* requested force.
RedistributionWithinDemand ==
  (/\ op = "allocate"
   /\ desired_force[1] = 0 /\ desired_force[3] = 0 /\ desired_force[2] > 0)
  => LET L == Layouts[layout]
         requested == Denom(L) * Norm(desired_force)
     IN /\ SumSeq(allocate_scaled(L, enabled, desired_force, desired_torque))
             <= requested
        /\ SumSeq(applied) <= Norm(desired_force)
        /\ redistributes(L, enabled, desired_force, desired_torque)
             => SumSeq(allocate_clipped(L, enabled, desired_force, desired_torque))
                  < requested

\* C23 (stuck engine): under engine_stuck, after every step engine 0 is
\* enabled, its throttle is the scenario's fixed value, and its entry in the
\* thrust array that went to the fuel draw and to the integration is that
\* throttle times its max_thrust, whatever the allocator gave for it.
StuckEngineThrustApplied ==
  (scenario.type = "engine_stuck" /\ op \in StepOps) =>
    /\ enabled[1]
    /\ throttle[1] = scenario.param
    /\ applied[1] * ThrottleScale = scenario.param * max_thrust(1)

\* what consume_fuel_for_thrusts(thrusts, dt) is to leave behind
FuelDrawn(thrusts, dt) ==
  LET fuel_needed == calculate_mass_flow(Layouts[layout], thrusts) * dt
  IN IF fuel_needed > fuel_mass
     THEN /\ \A i \in Engines :
               /\ applied'[i] * fuel_needed <= thrusts[i] * fuel_mass
               /\ thrusts[i] * fuel_mass < (applied'[i] + 1) * fuel_needed
               /\ throttle'[i] = ThrottleOf(applied'[i], max_thrust(i))
          /\ fuel_mass' = 0
     ELSE /\ fuel_mass' = fuel_mass - fuel_needed
          /\ applied' = thrusts
          /\ throttle' = throttle

\* C24 (fuel draw): a call of consume_fuel_for_thrusts with fuel in the tank
\* either finds the fuel needed exceeds the fuel left, and then returns every
\* thrust scaled by fuel_mass / fuel_needed, sets every throttle to the
\* returned thrust over max_thrust and empties the tank, or it takes exactly
\* the fuel needed and leaves the thrust array and the throttles as they were.
FuelDrawScalesOrConsumes ==
  [][\A thrusts \in ThrustArrays(N), dt \in DtValues :
       (fuel_mass > 0 /\ ConsumeFuelForThrusts(thrusts, dt))
         => FuelDrawn(thrusts, dt)]_vars

\* a call that found less fuel than it needed and scaled the thrusts down
FuelDrawScaled ==
  /\ op = "consume_fuel_for_thrusts"
  /\ fuel_at_start > 0 /\ fuel_mass = 0
  /\ \E i \in Engines : applied[i] = 1 /\ throttle[i] > 0

\* clamp(kp*error + ki*integral + kd*(error - prev_error)/dt, min, max) with
\* integral the accumulator after this call's error*dt has been added
PidOutputAfterIntegration(measurement, dt) ==
  LET error == controller.setpoint - measurement
      integral == controller.integral + error * dt
      derivative == ((error - controller.prev_error) * OneSecond) \div dt
  IN clamp_output(controller,
                  OneSecond * controller.kp * error + controller.ki * integral
                    + OneSecond * controller.kd * derivative)

\* C25 (PID output): every PIDController.update(measurement, dt) with dt > 0
\* returns the clamped sum of kp*error, ki*integral and
\* kd*(error - prev_error)/dt, where error = setpoint - measurement, integral
\* is the accumulator after this call's error*dt was added, and prev_error
\* is the error of the call before (0 after construction or reset).
PidOutputUsesUpdatedIntegral ==
  [][\A m \in MeasurementValues, dt \in DtValues, alt \in UpdateAltitudes :
       PidUpdate(m, dt, alt)
         => /\ call'.output = PidOutputAfterIntegration(m, dt)
            /\ controller'.prev_error = controller.setpoint - m]_vars

\* C26 (pruning): after every modify_throttle_command the throttle returned
\* for an engine is that of the most recent command of the full, unpruned
\* history whose age is at least the delay (0 when there is none), whatever
\* the dt of the update_time calls before it, and the pruned queue is in
\* non-decreasing order of issue time.
PruningKeepsDelayedCommand ==
  (op = "update_throttles") =>
    \A i \in Engines :
      /\ enabled[i] =>
            throttle[i] = DelayedThrottle(issued[i], time, scenario.param)
      /\ \A k \in 1..(Len(throttle_history[i]) - 1) :
            throttle_history[i][k][1] <= throttle_history[i][k + 1][1]

\* C27 (consumption rate): after every consume_fuel_for_thrusts(thrusts, dt)
\* with dt > 0 the vehicle's fuel_consumption_rate times dt is the fuel the
\* call took from fuel_mass; so the rate is 0 after a call that applied no
\* thrust and after a call with an empty tank.
RateMatchesFuelDrawn ==
  [][\A thrusts \in ThrustArrays(N), dt \in DtValues :
       ConsumeFuelForThrusts(thrusts, dt)
         => fuel_consumption_rate' * dt = (fuel_mass - fuel_mass') * OneSecond]_vars

\* C28 (landed is absorbing): a step of a StepSimulator that has not
\* finished advances the time by dt, sets finished exactly when it ends with
\* altitude <= 0 and returns 'LANDED' then and 'DESCENDING' otherwise; a
\* step of a finished StepSimulator leaves time, position, velocity and
\* orientation as they are and returns 'LANDED'; finished is cleared by
\* reset() only.
LandedIsAbsorbing ==
  [][/\ \A dt \in DtValues, keep \in BOOLEAN :
          StepSimulatorStep(dt, keep) =>
            IF stepsim.finished
            THEN /\ stepsim'.finished
                 /\ stepsim'.time = stepsim.time
                 /\ stepsim'.position = stepsim.position
                 /\ stepsim'.velocity = stepsim.velocity
                 /\ stepsim'.orientation = stepsim.orientation
                 /\ keep => snapshot'.returned.rest.status = "LANDED"
            ELSE /\ stepsim'.time = stepsim.time + dt
                 /\ stepsim'.finished = (stepsim'.position <= 0)
                 /\ keep => snapshot'.returned.rest.status
                              = IF stepsim'.position <= 0 THEN "LANDED"
                                ELSE "DESCENDING"
     /\ (stepsim.finished /\ ~stepsim'.finished) => op' = "reset"]_vars

\* a StepSimulator that a step has landed, with steps left to take: the
\* dictionary the step returned says 'LANDED'
LandedAndStepped ==
  /\ sim_class = "StepSimulator"
  /\ op = "step"
  /\ stepsim.finished /\ stepsim.position <= 0
  /\ stepsim.time < MaxStepTime
  /\ snapshot.returned.rest.status = "LANDED"

\* C29 (stop while paused): once stop() was called on a worker waiting in
\* the pause loop, and once a loop test of run() has read the stop, run()
\* makes no further sim.step call and emits no further telemetry: the
\* simulator stays as it is.
StopHaltsSimulator ==
  [][((worker.stopped_in_pause \/ worker.stop_observed) /\ op' = "run")
       => /\ worker'.steps = worker.steps
          /\ worker'.emitted.telemetry = worker.emitted.telemetry
          /\ stepsim' = stepsim]_vars

\* C30 (back to idle): when run() has ended, by a landing, by the duration
\* or by a stop, the worker's finished signal has been emitted (which is
\* what clears the dashboard's sim_worker and resets the controls).
RunEndEmitsFinished ==
  worker.pc = "done" => worker.emitted.finished > 0

====
